---- MODULE Spec2Model ----
\* Verification model of the notebook synchronisation code in
\* src/vs/workbench/contrib/notebook/browser/renderers/codeCell.ts:
\* the sequence diff engine, the cell and document models of the extension
\* host, and mimetype resolution.
EXTENDS Integers, Sequences, FiniteSets, TLC

\* ------------------------------------------------------------------------
\* Bounds
\* ------------------------------------------------------------------------
\* longest sequence handed to diff
MaxLen == 3
\* number of distinct elements the diffed sequences are built from
NumElems == 3
\* longest display-order pattern list
MaxOrderLen == 2
\* longest display order (user, document, default) of a mimetype resolution input
MaxResolveOrderLen == 1
\* most output renderers ever registered
MaxRenderers == 2
\* most mimetypes in the data of one output
MaxKeys == 2
\* most cells ever created
MaxCells == 3
\* most cells created where the content of the notifications is examined
MaxNotifyCells == 2
\* longest output list of a cell of a document
MaxOutputs == 1
\* most output renderers registered while a document is open
MaxDocRenderers == 1
\* longest output list of the cell shown by a CodeCell
MaxViewOutputs == 2
\* most undisposed listeners of one kind on one output
MaxListeners == 1
\* most notebook documents created by the controller
MaxDocuments == 2
\* most provider registrations made
MaxRegistrations == 2
\* most resolve requests in flight
MaxRequests == 2
\* most cells created through the controller
MaxRequestedCells == 1

Elems == 1..NumElems

RECURSIVE SeqsUpTo(_, _)
\* all sequences over S of length at most n
SeqsUpTo(S, n) ==
    IF n = 0 THEN {<<>>}
    ELSE LET shorter == SeqsUpTo(S, n - 1)
         IN shorter \cup {Append(s, x) : s \in {t \in shorter : Len(t) = n - 1}, x \in S}

\* the set of members of a sequence
Range(s) == {s[i] : i \in 1..Len(s)}

\* a[from .. to) with 0-based bounds, as Array.prototype.slice
Slice(a, from, to) == SubSeq(a, from + 1, to)

Min(a, b) == IF a < b THEN a ELSE b
Max(a, b) == IF a > b THEN a ELSE b

VARIABLES
    \* diff: the arguments of one call and its result
    before, after, contains, result,
    \* position of the driver of a pure function: "input" before the call, "done" after
    phase,
    \* ExtHostNotebookController._outputDisplayOrder (pushed by $acceptDisplayOrder)
    outputDisplayOrder,
    \* ExtHostNotebookDocument._parsedDisplayOrder (the document's display order)
    parsedDisplayOrder,
    \* ExtHostNotebookController._notebookOutputRenderers, in insertion order
    notebookOutputRenderers,
    \* getMimeTypeOrder: the argument of one call and its result
    mimeType, order,
    \* transformMimeTypes: the mimetype keys of the output's data, the value
    \* returned, and the render invocations made during the call
    outputData, transformed, renderCalls,
    \* ExtHostCell._handlePool and ExtHostNotebookOutputRenderer._handlePool
    cellHandlePool, rendererHandlePool,
    \* per cell handle: ExtHostCell._outputs and ExtHostCell._outputMapping
    outputs, outputMapping,
    \* per cell handle: the number of live listeners the document has on the
    \* cell's onDidChangeOutputs emitter
    listeners,
    \* ExtHostNotebookDocument._cells (cell handles) and _cellDisposableMapping
    \* (cell handle -> number of listeners held by the store registered under it)
    cells, cellDisposableMapping,
    \* the calls made on the remote peer proxy by the latest operation, whether
    \* that operation raised an error, and the operation itself
    sent, errorRaised, lastOp,
    \* CodeCell: viewCell.outputs (output identities), the pickedMimeTypeIndex
    \* field of every output, the outputElements and outputResizeListeners maps,
    \* the children of templateData.outputContainer in document order, the
    \* output heights tracked by the cell view model, the outputs that have an
    \* inset
    viewOutputs, pickedMimeTypeIndex, outputElements, outputResizeListeners,
    outputContainer, outputHeights, insets,
    \* CodeCell: per output the listeners started and not yet disposed (picker
    \* mousedown listeners and size observers), the pickActiveMimeTypeRenderer
    \* call awaiting the quick pick, if any, the state of the
    \* raceCancellation(viewCell.resolveTextModel(), cts.token) continuation, and
    \* whether the CodeCell has been constructed / disposed
    liveListeners, prompt, textModel, cellState,
    \* ExtHostNotebookController: _notebookProviders (with the registrations
    \* handed out), _documents, _editors, ExtHostNotebookDocument._handlePool,
    \* the cells of every document created, the active document, and the
    \* $resolveNotebook calls in flight (as a set: two calls at the same await
    \* with the same document are indistinguishable)
    notebookProviders, registrations, documents, editors, documentHandlePool,
    documentCells, activeNotebookDocument, requests,
    \* history: per URI, the documents $createNotebookDocument was called for
    \* since the URI's document was last destroyed
    createdDocuments,
    \* one ExtHostCell: source (lines, each a sequence of characters),
    \* _textDocument (its text and version, or none) and _initalVersion
    source, textDocument, initalVersion

diffVars == <<before, after, contains, result>>
orderVars == <<outputDisplayOrder, parsedDisplayOrder>>
rankVars == <<mimeType, order>>
resolveVars == <<notebookOutputRenderers, outputData, transformed, renderCalls, rendererHandlePool>>
cellVars == <<cellHandlePool, outputs, outputMapping, listeners>>
docVars == <<cells, cellDisposableMapping>>
opVars == <<sent, errorRaised, lastOp>>
viewVars == <<viewOutputs, pickedMimeTypeIndex, outputElements, outputResizeListeners,
              outputContainer, outputHeights, insets, liveListeners, prompt, textModel,
              cellState>>
controllerVars == <<notebookProviders, registrations, documents, editors, documentHandlePool,
                    documentCells, activeNotebookDocument, requests, createdDocuments>>
contentVars == <<source, textDocument, initalVersion>>
vars == <<before, after, contains, result, phase, outputDisplayOrder, parsedDisplayOrder,
          notebookOutputRenderers, mimeType, order, outputData, transformed, renderCalls,
          cellHandlePool, rendererHandlePool, outputs, outputMapping, listeners,
          cells, cellDisposableMapping, sent, errorRaised, lastOp,
          viewOutputs, pickedMimeTypeIndex, outputElements, outputResizeListeners,
          outputContainer, outputHeights, insets, liveListeners, prompt, textModel,
          cellState,
          notebookProviders, registrations, documents, editors, documentHandlePool,
          documentCells, activeNotebookDocument, requests, createdDocuments,
          source, textDocument, initalVersion>>

\* values of the variables a specification does not use
DiffIdle == before = <<>> /\ after = <<>> /\ contains = {} /\ result = <<>>
ResolveIdle ==
    /\ notebookOutputRenderers = <<>>
    /\ outputData = <<>>
    /\ transformed = <<>>
    /\ renderCalls = <<>>
    /\ rendererHandlePool = 0
ViewIdle ==
    /\ viewOutputs = <<>>
    /\ pickedMimeTypeIndex = <<>>
    /\ outputElements = <<>>
    /\ outputResizeListeners = <<>>
    /\ outputContainer = <<>>
    /\ outputHeights = <<>>
    /\ insets = {}
    /\ liveListeners = <<>>
    /\ prompt = [open |-> FALSE]
    /\ textModel = [state |-> "none"]
    /\ cellState = "none"
\* _textDocument is undefined
NoTextDocument == [attached |-> FALSE]
ContentIdle ==
    /\ source = <<>>
    /\ textDocument = NoTextDocument
    /\ initalVersion = 0 - 1
ControllerIdle ==
    /\ notebookProviders = <<>>
    /\ registrations = <<>>
    /\ documents = <<>>
    /\ editors = <<>>
    /\ documentHandlePool = 0
    /\ documentCells = <<>>
    /\ activeNotebookDocument = -1
    /\ requests = {}
    /\ createdDocuments = <<>>
DocIdle ==
    /\ cellHandlePool = 0
    /\ outputs = <<>>
    /\ outputMapping = <<>>
    /\ listeners = <<>>
    /\ cells = <<>>
    /\ cellDisposableMapping = <<>>
    /\ sent = <<>>
    /\ errorRaised = FALSE
    /\ lastOp = [name |-> "none"]

\* ------------------------------------------------------------------------
\* Sequence diff engine
\* ------------------------------------------------------------------------

\* pushSplice without the early return for an empty edit
pushSplice_KeepEmpty(res, start, deleteCount, toInsert) ==
    LET latest == res[Len(res)]
    IN IF Len(res) > 0 /\ latest.start + latest.deleteCount = start
       THEN [res EXCEPT ![Len(res)] =
                [start |-> latest.start,
                 deleteCount |-> latest.deleteCount + deleteCount,
                 toInsert |-> latest.toInsert \o toInsert]]
       ELSE Append(res, [start |-> start, deleteCount |-> deleteCount, toInsert |-> toInsert])

\* pushSplice that never merges into the latest splice
pushSplice_NoMerge(res, start, deleteCount, toInsert) ==
    IF deleteCount = 0 /\ toInsert = <<>>
    THEN res
    ELSE Append(res, [start |-> start, deleteCount |-> deleteCount, toInsert |-> toInsert])

\* pushSplice that on a merge adds the delete count but forgets the inserted items
pushSplice_MergeDropsInsert(res, start, deleteCount, toInsert) ==
    IF deleteCount = 0 /\ toInsert = <<>>
    THEN res
    ELSE LET latest == res[Len(res)]
         IN IF Len(res) > 0 /\ latest.start + latest.deleteCount = start
            THEN [res EXCEPT ![Len(res)] =
                     [start |-> latest.start,
                      deleteCount |-> latest.deleteCount + deleteCount,
                      toInsert |-> latest.toInsert]]
            ELSE Append(res, [start |-> start, deleteCount |-> deleteCount, toInsert |-> toInsert])

\* pushSplice that records every start one position late
pushSplice_StartOffByOne(res, start, deleteCount, toInsert) ==
    IF deleteCount = 0 /\ toInsert = <<>>
    THEN res
    ELSE LET latest == res[Len(res)]
         IN IF Len(res) > 0 /\ latest.start + latest.deleteCount = start + 1
            THEN [res EXCEPT ![Len(res)] =
                     [start |-> latest.start,
                      deleteCount |-> latest.deleteCount + deleteCount,
                      toInsert |-> latest.toInsert \o toInsert]]
            ELSE Append(res, [start |-> start + 1, deleteCount |-> deleteCount, toInsert |-> toInsert])

\* diff.pushSplice: drop an empty edit, merge an edit that starts where the
\* latest splice ends, append otherwise
pushSplice(res, start, deleteCount, toInsert) ==
    IF deleteCount = 0 /\ toInsert = <<>>
    THEN res
    ELSE LET latest == res[Len(res)]
         IN IF Len(res) > 0 /\ latest.start + latest.deleteCount = start
            THEN [res EXCEPT ![Len(res)] =
                     [start |-> latest.start,
                      deleteCount |-> latest.deleteCount + deleteCount,
                      toInsert |-> latest.toInsert \o toInsert]]
            ELSE Append(res, [start |-> start, deleteCount |-> deleteCount, toInsert |-> toInsert])

RECURSIVE diffLoop(_, _, _, _, _, _)
\* the while (true) loop of diff; beforeIdx and afterIdx are 0-based,
\* known is the set of elements for which the contains callback answers true
diffLoop(b, a, known, beforeIdx, afterIdx, res) ==
    IF beforeIdx = Len(b)
    THEN pushSplice(res, beforeIdx, 0, Slice(a, afterIdx, Len(a)))
    ELSE IF afterIdx = Len(a)
    THEN pushSplice(res, beforeIdx, Len(b) - beforeIdx, <<>>)
    ELSE LET beforeElement == b[beforeIdx + 1]
             afterElement == a[afterIdx + 1]
         IN IF beforeElement = afterElement
            THEN diffLoop(b, a, known, beforeIdx + 1, afterIdx + 1, res)
            ELSE IF afterElement \in known
            THEN diffLoop(b, a, known, beforeIdx + 1, afterIdx,
                          pushSplice(res, beforeIdx, 1, <<>>))
            ELSE diffLoop(b, a, known, beforeIdx, afterIdx + 1,
                          pushSplice(res, beforeIdx, 0, <<afterElement>>))

\* diff(before, after, contains)
diff(b, a, known) == diffLoop(b, a, known, 0, 0, <<>>)

\* ------------------------------------------------------------------------
\* Applying splices (Array.prototype.splice: start and deleteCount are clamped)
\* ------------------------------------------------------------------------
ApplySplice(s, start, deleteCount, toInsert) ==
    LET st == IF start < 0 THEN Max(Len(s) + start, 0) ELSE Min(start, Len(s))
        dc == Min(Max(deleteCount, 0), Len(s) - st)
    IN Slice(s, 0, st) \o toInsert \o Slice(s, st + dc, Len(s))

RECURSIVE ApplyInOrder(_, _)
\* each splice applied at its stated start to the output of the previous one
ApplyInOrder(s, splices) ==
    IF splices = <<>> THEN s
    ELSE ApplyInOrder(ApplySplice(s, Head(splices).start, Head(splices).deleteCount,
                                  Head(splices).toInsert),
                      Tail(splices))

RECURSIVE ApplyShifted(_, _, _)
\* left to right, each start moved by the net length change of the splices applied so far
ApplyShifted(s, splices, shift) ==
    IF splices = <<>> THEN s
    ELSE LET h == Head(splices)
         IN ApplyShifted(ApplySplice(s, h.start + shift, h.deleteCount, h.toInsert),
                         Tail(splices),
                         shift + Len(h.toInsert) - h.deleteCount)

\* ------------------------------------------------------------------------
\* Mimetypes, glob patterns and display orders
\* ------------------------------------------------------------------------
TextPlain == [type |-> "text", sub |-> "plain"]
TextHtml == [type |-> "text", sub |-> "html"]
ImagePng == [type |-> "image", sub |-> "png"]
AppJson == [type |-> "application", sub |-> "json"]
AppCustom == [type |-> "application", sub |-> "x-custom"]
MimeTypes == {TextPlain, TextHtml, ImagePng, AppJson, AppCustom}

\* a pattern is a mimetype, or a type with the wildcard subtype
ImageAny == [type |-> "image", sub |-> "*"]
Patterns == {ImageAny, TextPlain, TextHtml}

\* a parsed glob pattern applied to a mimetype string
GlobMatch(pattern, m) ==
    /\ pattern.type = m.type
    /\ (pattern.sub = "*" \/ pattern.sub = m.sub)

\* mimeTypeSupportedByCore
mimeTypeSupportedByCore(m) == m \in {TextPlain, TextHtml, ImagePng, AppJson}

\* _outputDisplayOrder before the host has pushed one (undefined)
NoDisplayOrder ==
    [pushed |-> FALSE, defaultOrder |-> <<>>, hasUserOrder |-> FALSE, userOrder |-> <<>>]

\* $acceptDisplayOrder: the value stored for a pushed display order; userOrder is optional
PushedDisplayOrder(defaultOrder, hasUserOrder, userOrder) ==
    [pushed |-> TRUE, defaultOrder |-> defaultOrder,
     hasUserOrder |-> hasUserOrder,
     userOrder |-> IF hasUserOrder THEN userOrder ELSE <<>>]

RECURSIVE scanOrder(_, _, _, _)
\* one for loop of getMimeTypeOrder over a pattern list, from 1-based position i
\* with the running counter ord: found with the counter at the first match,
\* or not found with the counter advanced past the list
scanOrder(list, m, i, ord) ==
    IF i > Len(list) THEN [found |-> FALSE, order |-> ord]
    ELSE IF GlobMatch(list[i], m) THEN [found |-> TRUE, order |-> ord]
    ELSE scanOrder(list, m, i + 1, ord + 1)

\* ExtHostNotebookDocument.getMimeTypeOrder: nothing is scanned (order 0) while
\* the controller has no display order; otherwise the user order (when given),
\* the document order and the default order are scanned with one running counter
getMimeTypeOrder(m, coreDisplayOrder, documentDisplayOrder) ==
    IF ~coreDisplayOrder.pushed THEN 0
    ELSE LET u == IF coreDisplayOrder.hasUserOrder
                  THEN scanOrder(coreDisplayOrder.userOrder, m, 1, 0)
                  ELSE [found |-> FALSE, order |-> 0]
             d == scanOrder(documentDisplayOrder, m, 1, u.order)
             f == scanOrder(coreDisplayOrder.defaultOrder, m, 1, d.order)
         IN IF u.found THEN u.order ELSE IF d.found THEN d.order ELSE f.order

OrderIdle == outputDisplayOrder = NoDisplayOrder /\ parsedDisplayOrder = <<>>
RankIdle == mimeType = TextPlain /\ order = 0

\* ------------------------------------------------------------------------
\* Specification of mimetype ranking: one getMimeTypeOrder call
\* ------------------------------------------------------------------------
PatternLists == SeqsUpTo(Patterns, MaxOrderLen)

InitRank ==
    /\ outputDisplayOrder \in
           {NoDisplayOrder} \cup
           {PushedDisplayOrder(f, h, u) :
                f \in PatternLists, h \in BOOLEAN, u \in PatternLists}
    /\ parsedDisplayOrder \in PatternLists
    /\ mimeType \in {ImagePng, TextPlain, TextHtml, AppJson}
    /\ order = 0
    /\ phase = "input"
    /\ DiffIdle /\ ResolveIdle /\ DocIdle /\ ViewIdle /\ ControllerIdle /\ ContentIdle

RunGetMimeTypeOrder ==
    /\ phase = "input"
    /\ order' = getMimeTypeOrder(mimeType, outputDisplayOrder, parsedDisplayOrder)
    /\ phase' = "done"
    /\ UNCHANGED <<mimeType, orderVars, diffVars, resolveVars, cellVars, docVars, opVars, viewVars, controllerVars, contentVars>>

NextRank == RunGetMimeTypeOrder

SpecRank == InitRank /\ [][NextRank]_vars

\* ------------------------------------------------------------------------
\* Renderer registry and mimetype resolution
\* ------------------------------------------------------------------------
\* the subTypes of the filters renderers are registered with
RendererFilters == {{ImagePng}, {TextPlain, ImagePng}, {AppCustom}}

\* ExtHostNotebookOutputRenderer.matches: the mimetype is one of filter.subTypes
matches(renderer, m) == m \in renderer.subTypes

RECURSIVE findBestMatchedRenderer(_, _)
\* ExtHostNotebookController.findBestMatchedRenderer: the handles of the
\* registered renderers that match, in the iteration (insertion) order of the map
findBestMatchedRenderer(renderers, m) ==
    IF renderers = <<>> THEN <<>>
    ELSE (IF matches(Head(renderers), m) THEN <<Head(renderers).handle>> ELSE <<>>)
         \o findBestMatchedRenderer(Tail(renderers), m)

RECURSIVE insertByOrder(_, _, _, _)
\* one step of the stable sort: m goes after every element whose order is not greater
insertByOrder(sorted, m, coreDisplayOrder, documentDisplayOrder) ==
    IF sorted = <<>> THEN <<m>>
    ELSE IF getMimeTypeOrder(Head(sorted), coreDisplayOrder, documentDisplayOrder)
              - getMimeTypeOrder(m, coreDisplayOrder, documentDisplayOrder) > 0
    THEN <<m>> \o sorted
    ELSE <<Head(sorted)>> \o insertByOrder(Tail(sorted), m, coreDisplayOrder, documentDisplayOrder)

RECURSIVE sortMimeTypes(_, _, _)
\* mimeTypes.sort((a, b) => getMimeTypeOrder(a) - getMimeTypeOrder(b)): ascending
\* order, mimetypes of equal order staying in key order
sortMimeTypes(keys, coreDisplayOrder, documentDisplayOrder) ==
    IF keys = <<>> THEN <<>>
    ELSE insertByOrder(
             sortMimeTypes(SubSeq(keys, 1, Len(keys) - 1), coreDisplayOrder, documentDisplayOrder),
             keys[Len(keys)], coreDisplayOrder, documentDisplayOrder)

\* the rendered content returned by handlers[0].render
RenderedOutput(handle, m) == [renderedBy |-> handle, mimeType |-> m]

\* the unresolved candidate without renderer comes first also when renderers match
candidatesOf_UnresolvedFirst(handlers, m) ==
    <<[mimeType |-> m, isResolved |-> FALSE]>>
    \o (IF Len(handlers) > 0
        THEN <<[mimeType |-> m, isResolved |-> TRUE, rendererId |-> handlers[1],
                output |-> RenderedOutput(handlers[1], m)]>>
        ELSE <<>>)

\* the builtin candidate is pushed whenever a renderer matches, core-supported or not
candidatesOf_BuiltinForAny(handlers, m) ==
    IF Len(handlers) > 0
    THEN <<[mimeType |-> m, isResolved |-> TRUE, rendererId |-> handlers[1],
            output |-> RenderedOutput(handlers[1], m)]>>
         \o [i \in 1..(Len(handlers) - 1) |->
                [mimeType |-> m, isResolved |-> FALSE, rendererId |-> handlers[i + 1]]]
         \o <<[mimeType |-> m, isResolved |-> FALSE, rendererId |-> -1]>>
    ELSE <<[mimeType |-> m, isResolved |-> FALSE]>>

\* the body of sorted.forEach in transformMimeTypes: the candidates pushed for
\* one mimetype, given the matching renderers
candidatesOf(handlers, m) ==
    IF Len(handlers) > 0
    THEN <<[mimeType |-> m, isResolved |-> TRUE, rendererId |-> handlers[1],
            output |-> RenderedOutput(handlers[1], m)]>>
         \o [i \in 1..(Len(handlers) - 1) |->
                [mimeType |-> m, isResolved |-> FALSE, rendererId |-> handlers[i + 1]]]
         \o (IF mimeTypeSupportedByCore(m)
             THEN <<[mimeType |-> m, isResolved |-> FALSE, rendererId |-> -1]>>
             ELSE <<>>)
    ELSE <<[mimeType |-> m, isResolved |-> FALSE]>>

\* every matching renderer is invoked
rendersOf_AllHandlers(handlers, m) ==
    [i \in 1..Len(handlers) |-> [renderer |-> handlers[i], mimeType |-> m]]

\* the render invocations made for one mimetype: handlers[0].render, if any
rendersOf(handlers, m) ==
    IF Len(handlers) > 0 THEN <<[renderer |-> handlers[1], mimeType |-> m]>> ELSE <<>>

RECURSIVE forEachSorted(_, _, _)
\* sorted.forEach(...): the candidates of all mimetypes in sorted order, and the
\* render invocations in the order they are made
forEachSorted(sorted, renderers, acc) ==
    IF sorted = <<>> THEN acc
    ELSE LET handlers == findBestMatchedRenderer(renderers, Head(sorted))
         IN forEachSorted(Tail(sorted), renderers,
                [orderedMimeTypes |-> acc.orderedMimeTypes \o candidatesOf(handlers, Head(sorted)),
                 renders |-> acc.renders \o rendersOf(handlers, Head(sorted))])

\* ExtHostNotebookDocument.transformMimeTypes on an output whose data has the
\* given mimetype keys: ret is the value returned, renders the render calls made
transformMimeTypes(output_type, keys, renderers, coreDisplayOrder, documentDisplayOrder) ==
    LET sorted == sortMimeTypes(keys, coreDisplayOrder, documentDisplayOrder)
        done == forEachSorted(sorted, renderers, [orderedMimeTypes |-> <<>>, renders |-> <<>>])
    IN [ret |-> [output_type |-> output_type,
                 data |-> keys,
                 orderedMimeTypes |-> done.orderedMimeTypes,
                 pickedMimeTypeIndex |-> 0],
        renders |-> done.renders]

\* ------------------------------------------------------------------------
\* Specification of mimetype resolution: one transformMimeTypes call
\* ------------------------------------------------------------------------
\* sequences without repetition
NoRepeat(s) == \A i, j \in 1..Len(s) : i # j => s[i] # s[j]

\* Object.keys(output.data): distinct mimetypes in insertion order
DataKeys == {k \in SeqsUpTo({TextPlain, ImagePng, AppCustom}, MaxKeys) : NoRepeat(k)}

\* the registry after any registrations and disposals: handles ascend in insertion order
Registries ==
    {r \in SeqsUpTo([handle : 0..(MaxRenderers - 1), subTypes : RendererFilters], MaxRenderers) :
        \A i \in 1..(Len(r) - 1) : r[i].handle < r[i + 1].handle}

\* the display orders of a resolution: patterns that match some key of DataKeys
ResolvePatterns == {ImageAny, TextPlain}
ResolvePatternLists == SeqsUpTo(ResolvePatterns, MaxResolveOrderLen)

InitResolve ==
    /\ outputDisplayOrder \in
           {NoDisplayOrder} \cup
           {PushedDisplayOrder(f, h, u) :
                f \in ResolvePatternLists, h \in BOOLEAN, u \in ResolvePatternLists}
    /\ parsedDisplayOrder \in ResolvePatternLists
    /\ notebookOutputRenderers \in Registries
    /\ outputData \in DataKeys
    /\ transformed = <<>>
    /\ renderCalls = <<>>
    /\ phase = "input"
    /\ rendererHandlePool = 0
    /\ DiffIdle /\ RankIdle /\ DocIdle /\ ViewIdle /\ ControllerIdle /\ ContentIdle

RunTransformMimeTypes ==
    /\ phase = "input"
    /\ LET r == transformMimeTypes("display_data", outputData, notebookOutputRenderers,
                                   outputDisplayOrder, parsedDisplayOrder)
       IN /\ transformed' = r.ret
          /\ renderCalls' = r.renders
    /\ phase' = "done"
    /\ UNCHANGED <<notebookOutputRenderers, rendererHandlePool, outputData, orderVars, rankVars,
                   diffVars, cellVars, docVars, opVars, viewVars, controllerVars, contentVars>>

NextResolve == RunTransformMimeTypes

SpecResolve == InitResolve /\ [][NextResolve]_vars

\* ------------------------------------------------------------------------
\* Cell and document models
\* ------------------------------------------------------------------------
\* the output objects the provider hands out, by identity; data lists the
\* mimetype keys of a display output
OutputTable ==
    <<[output_type |-> "stream", data |-> <<>>],
      [output_type |-> "display_data", data |-> <<TextPlain, ImagePng>>],
      [output_type |-> "execute_result", data |-> <<>>]>>
Outputs == DOMAIN OutputTable

CellHandles == 0..(MaxCells - 1)

\* a map without the entry for key k (Map.delete)
MapDelete(map, k) == [x \in DOMAIN map \ {k} |-> map[x]]
\* a map with the entry for key k set to v (Map.set)
MapSet(map, k, v) == [x \in DOMAIN map \cup {k} |-> IF x = k THEN v ELSE map[x]]

RECURSIVE Repeat(_, _)
Repeat(s, n) == IF n <= 0 THEN <<>> ELSE s \o Repeat(s, n - 1)

RECURSIVE Flatten(_)
Flatten(ss) == IF ss = <<>> THEN <<>> ELSE Head(ss) \o Flatten(Tail(ss))

isDisplay(output_type) == output_type \in {"display_data", "execute_result"}

\* the element of the outputs.map(...) callbacks of eventuallyUpdateCells and
\* eventuallyUpdateCellOutputs: a display output is replaced by its transformed form
transformOutput(o, renderers, coreDisplayOrder, documentDisplayOrder) ==
    IF isDisplay(OutputTable[o].output_type)
    THEN transformMimeTypes(OutputTable[o].output_type, OutputTable[o].data, renderers,
                            coreDisplayOrder, documentDisplayOrder).ret
    ELSE OutputTable[o]

isTransformed(dto) == "orderedMimeTypes" \in DOMAIN dto

\* reading ret.orderedMimeTypes[ret.pickedMimeTypeIndex].isResolved fails when
\* there is no candidate at the picked index
pickedIsMissing(dto) ==
    isTransformed(dto) /\ dto.pickedMimeTypeIndex + 1 > Len(dto.orderedMimeTypes)

\* the renderers set built while transforming: the renderer of the picked
\* candidate of every transformed output, when that candidate is resolved
usedRenderers(dtos) ==
    {dtos[i].orderedMimeTypes[dtos[i].pickedMimeTypeIndex + 1].rendererId :
        i \in {j \in 1..Len(dtos) :
                  /\ isTransformed(dtos[j])
                  /\ ~pickedIsMissing(dtos[j])
                  /\ dtos[j].orderedMimeTypes[dtos[j].pickedMimeTypeIndex + 1].isResolved}}

\* the transport record of an inserted cell
cellDto(h, outs, renderers, coreDisplayOrder, documentDisplayOrder) ==
    [handle |-> h,
     outputs |-> [i \in 1..Len(outs[h]) |->
                     transformOutput(outs[h][i], renderers, coreDisplayOrder, documentDisplayOrder)],
     isDirty |-> FALSE]

\* ExtHostNotebookDocument.eventuallyUpdateCells: the error raised, if any, and
\* the proxy calls made
eventuallyUpdateCells(diffs, outs, renderers, coreDisplayOrder, documentDisplayOrder) ==
    LET diffDtos == [k \in 1..Len(diffs) |->
                        [start |-> diffs[k].start,
                         deleteCount |-> diffs[k].deleteCount,
                         toInsert |-> [j \in 1..Len(diffs[k].toInsert) |->
                                          cellDto(diffs[k].toInsert[j], outs, renderers,
                                                  coreDisplayOrder, documentDisplayOrder)]]]
        outputDtos == Flatten([k \in 1..Len(diffDtos) |->
                          Flatten([j \in 1..Len(diffDtos[k].toInsert) |->
                              diffDtos[k].toInsert[j].outputs])])
        threw == \E i \in 1..Len(outputDtos) : pickedIsMissing(outputDtos[i])
    IN [threw |-> threw,
        calls |-> IF threw THEN <<>>
                  ELSE <<[call |-> "spliceCells", splices |-> diffDtos,
                          renderers |-> usedRenderers(outputDtos)]>>]

\* ExtHostNotebookDocument.eventuallyUpdateCellOutputs
eventuallyUpdateCellOutputs(h, diffs, renderers, coreDisplayOrder, documentDisplayOrder) ==
    LET outputDiffDtos == [k \in 1..Len(diffs) |->
                        [start |-> diffs[k].start,
                         deleteCount |-> diffs[k].deleteCount,
                         toInsert |-> [j \in 1..Len(diffs[k].toInsert) |->
                                          transformOutput(diffs[k].toInsert[j], renderers,
                                                          coreDisplayOrder, documentDisplayOrder)]]]
        outputDtos == Flatten([k \in 1..Len(outputDiffDtos) |-> outputDiffDtos[k].toInsert])
        threw == \E i \in 1..Len(outputDtos) : pickedIsMissing(outputDtos[i])
    IN [threw |-> threw,
        calls |-> IF threw THEN <<>>
                  ELSE <<[call |-> "spliceCellOutputs", cellHandle |-> h,
                          splices |-> outputDiffDtos,
                          renderers |-> usedRenderers(outputDtos)]>>]

RECURSIVE unsubscribeRange(_, _, _, _)
\* the for loop of the cells setter over the deleted range [i, end) of the old
\* cells: clear the store of the cell's handle, if any, and delete the entry
unsubscribeRange(oldCells, i, end, st) ==
    IF i >= end THEN st
    ELSE LET h == oldCells[i + 1]
             held == IF h \in DOMAIN st.map THEN st.map[h] ELSE 0
         IN unsubscribeRange(oldCells, i + 1, end,
                [map |-> MapDelete(st.map, h),
                 lis |-> [st.lis EXCEPT ![h] = @ - held]])

RECURSIVE subscribeAll(_, _)
\* diff.toInsert.forEach of the cells setter: a new store is set under the
\* handle (replacing, not disposing, a store already there) and gets one listener
subscribeAll(toInsert, st) ==
    IF toInsert = <<>> THEN st
    ELSE LET h == Head(toInsert)
         IN subscribeAll(Tail(toInsert),
                [map |-> MapSet(st.map, h, 1),
                 lis |-> [st.lis EXCEPT ![h] = @ + 1]])

\* diffs.forEach of the cells setter: per splice, the removed cells are
\* unsubscribed, then the inserted cells subscribed
applyCellSplices(diffs, oldCells, st) ==
    LET RECURSIVE go(_, _)
        go(ds, acc) ==
            IF ds = <<>> THEN acc
            ELSE LET d == Head(ds)
                 IN go(Tail(ds),
                       subscribeAll(d.toInsert,
                           unsubscribeRange(oldCells, d.start, d.start + d.deleteCount, acc)))
    IN go(diffs, st)

\* a cells setter that notifies the remote peer before the bookkeeping
cellsSetter_NotifyFirst(oldCells, newCells, st, outs, renderers, coreDisplayOrder, documentDisplayOrder) ==
    [map |-> applyCellSplices(diff(oldCells, newCells, DOMAIN st.map), oldCells, st).map,
     lis |-> applyCellSplices(diff(oldCells, newCells, DOMAIN st.map), oldCells, st).lis,
     cells |-> newCells,
     calls |-> eventuallyUpdateCells(diff(oldCells, newCells, DOMAIN st.map), outs, renderers,
                                     coreDisplayOrder, documentDisplayOrder).calls,
     threw |-> eventuallyUpdateCells(diff(oldCells, newCells, DOMAIN st.map), outs, renderers,
                                     coreDisplayOrder, documentDisplayOrder).threw,
     atSend |-> [cells |-> oldCells, map |-> st.map, lis |-> st.lis]]

\* set cells(newCells) of ExtHostNotebookDocument on the cells oldCells and the
\* subscriptions st: diff, diffs.forEach (bookkeeping), this._cells = newCells,
\* then eventuallyUpdateCells; atSend is the state of the document when
\* eventuallyUpdateCells is called
cellsSetter(oldCells, newCells, st, outs, renderers, coreDisplayOrder, documentDisplayOrder) ==
    [map |-> applyCellSplices(diff(oldCells, newCells, DOMAIN st.map), oldCells, st).map,
     lis |-> applyCellSplices(diff(oldCells, newCells, DOMAIN st.map), oldCells, st).lis,
     cells |-> newCells,
     calls |-> eventuallyUpdateCells(diff(oldCells, newCells, DOMAIN st.map), outs, renderers,
                                     coreDisplayOrder, documentDisplayOrder).calls,
     threw |-> eventuallyUpdateCells(diff(oldCells, newCells, DOMAIN st.map), outs, renderers,
                                     coreDisplayOrder, documentDisplayOrder).threw,
     atSend |-> [cells |-> newCells,
                 map |-> applyCellSplices(diff(oldCells, newCells, DOMAIN st.map), oldCells, st).map,
                 lis |-> applyCellSplices(diff(oldCells, newCells, DOMAIN st.map), oldCells, st).lis]]

RECURSIVE applyOutputSplices(_, _, _)
\* diffs.forEach of the outputs setter: per splice, the outputs of the deleted
\* range leave _outputMapping, then the inserted outputs enter it
applyOutputSplices(diffs, oldOutputs, mapping) ==
    IF diffs = <<>> THEN mapping
    ELSE LET d == Head(diffs)
         IN applyOutputSplices(Tail(diffs), oldOutputs,
                (mapping \ {oldOutputs[i + 1] : i \in d.start..(d.start + d.deleteCount - 1)})
                    \cup Range(d.toInsert))

\* ------------------------------------------------------------------------
\* Operations on a document and its cells. Every operation runs to completion
\* in one turn of the event loop; sent, errorRaised and lastOp record the turn
\* just taken and are reset by Settle before the next one, so they always
\* describe exactly one operation. Settle changes nothing of the program's
\* state, so every state of the program is reached with this reset.
\* ------------------------------------------------------------------------
CreatedCells == 0..(cellHandlePool - 1)

AllCellLists == {l \in SeqsUpTo(CellHandles, MaxCells) : NoRepeat(l)}
\* the lists a provider assigns to a document's cells: created cells, each at most once
CellLists == {l \in AllCellLists : Range(l) \subseteq CreatedCells}

\* the variables of the pure-function specifications
pureVars == <<before, after, contains, result, phase, mimeType, order,
              outputData, transformed, renderCalls>>
envVars == <<outputDisplayOrder, parsedDisplayOrder, notebookOutputRenderers, rendererHandlePool>>

NoOp == [name |-> "none"]
Settled == lastOp = NoOp

\* control is back in the event loop
Settle ==
    /\ ~Settled
    /\ sent' = <<>>
    /\ errorRaised' = FALSE
    /\ lastOp' = NoOp
    /\ UNCHANGED <<cellVars, docVars, envVars, pureVars, viewVars, controllerVars, contentVars>>

Init ==
    /\ cellHandlePool = 0
    /\ rendererHandlePool = 0
    /\ outputs = [h \in CellHandles |-> <<>>]
    /\ outputMapping = [h \in CellHandles |-> {}]
    /\ listeners = [h \in CellHandles |-> 0]
    /\ cells = <<>>
    /\ cellDisposableMapping = <<>>
    /\ notebookOutputRenderers = <<>>
    /\ outputDisplayOrder = NoDisplayOrder
    /\ parsedDisplayOrder = <<>>
    /\ sent = <<>>
    /\ errorRaised = FALSE
    /\ lastOp = NoOp
    /\ outputData = <<>> /\ transformed = <<>> /\ renderCalls = <<>>
    /\ phase = "input"
    /\ DiffIdle /\ RankIdle /\ ViewIdle /\ ControllerIdle /\ ContentIdle

\* new ExtHostCell(content, type, language, outputs), as from editor.createCell
CreateCell(outs) ==
    /\ Settled
    /\ outputs' = [outputs EXCEPT ![cellHandlePool] = outs]
    /\ outputMapping' = [outputMapping EXCEPT ![cellHandlePool] = {}]
    /\ cellHandlePool' = cellHandlePool + 1
    /\ sent' = <<>>
    /\ errorRaised' = FALSE
    /\ lastOp' = [name |-> "createCell", cell |-> cellHandlePool]
    /\ UNCHANGED <<listeners, docVars, envVars, pureVars, viewVars, controllerVars, contentVars>>

\* document.cells = newCells
SetCells(newCells) ==
    LET set == cellsSetter(cells, newCells, [map |-> cellDisposableMapping, lis |-> listeners],
                           outputs, notebookOutputRenderers, outputDisplayOrder,
                           parsedDisplayOrder)
    IN /\ Settled
       /\ cellDisposableMapping' = set.map
       /\ listeners' = set.lis
       /\ cells' = set.cells
       /\ sent' = set.calls
       /\ errorRaised' = set.threw
       /\ lastOp' = [name |-> "setCells", old |-> cells, known |-> DOMAIN cellDisposableMapping,
                     atSend |-> set.atSend]
       /\ UNCHANGED <<cellHandlePool, outputs, outputMapping, envVars, pureVars, viewVars, controllerVars, contentVars>>

\* the outputs setter firing its event before this._outputs is assigned
outputsSetter_FireFirst(oldOutputs, newOutputs, mapping) ==
    [outputs |-> newOutputs,
     mapping |-> applyOutputSplices(diff(oldOutputs, newOutputs, mapping), oldOutputs, mapping),
     fired |-> <<diff(oldOutputs, newOutputs, mapping)>>,
     atFire |-> oldOutputs]

\* ExtHostCell set outputs: the diff against the previous list with
\* _outputMapping.has as contains, the bookkeeping of _outputMapping, the
\* assignment of this._outputs, then one _onDidChangeOutputs.fire(diffs); fired
\* lists the events fired, atFire is this._outputs when the event is fired
outputsSetter(oldOutputs, newOutputs, mapping) ==
    [outputs |-> newOutputs,
     mapping |-> applyOutputSplices(diff(oldOutputs, newOutputs, mapping), oldOutputs, mapping),
     fired |-> <<diff(oldOutputs, newOutputs, mapping)>>,
     atFire |-> newOutputs]

\* cell.outputs = newOutputs, on any cell created so far
SetOutputs(h, newOutputs) ==
    LET set == outputsSetter(outputs[h], newOutputs, outputMapping[h])
        upd == eventuallyUpdateCellOutputs(h, set.fired[1], notebookOutputRenderers,
                                           outputDisplayOrder, parsedDisplayOrder)
    IN /\ Settled
       /\ outputMapping' = [outputMapping EXCEPT ![h] = set.mapping]
       /\ outputs' = [outputs EXCEPT ![h] = set.outputs]
       \* _onDidChangeOutputs.fire(diffs): one delivery per live listener
       /\ sent' = Repeat(upd.calls, listeners[h])
       /\ errorRaised' = (listeners[h] > 0 /\ upd.threw)
       /\ lastOp' = [name |-> "setOutputs", cell |-> h, delivered |-> listeners[h],
                     old |-> outputs[h], fired |-> set.fired, atFire |-> set.atFire]
       /\ UNCHANGED <<cellHandlePool, listeners, docVars, envVars, pureVars, viewVars, controllerVars, contentVars>>

\* $createEmptyCell: editor.createCell('', language, type, []) and
\* document.insertCell(index, rawCell)
CreateEmptyCell(index) ==
    LET h == cellHandlePool
        map == IF h \in DOMAIN cellDisposableMapping
               THEN cellDisposableMapping
               ELSE MapSet(cellDisposableMapping, h, 0)
    IN /\ Settled
       /\ cellHandlePool' = h + 1
       /\ outputs' = [outputs EXCEPT ![h] = <<>>]
       /\ outputMapping' = [outputMapping EXCEPT ![h] = {}]
       /\ cells' = ApplySplice(cells, index, 0, <<h>>)
       /\ cellDisposableMapping' = MapSet(map, h, map[h] + 1)
       /\ listeners' = [listeners EXCEPT ![h] = @ + 1]
       /\ sent' = <<>>
       /\ errorRaised' = FALSE
       /\ lastOp' = [name |-> "insertCell", cell |-> h, index |-> index]
       /\ UNCHANGED <<envVars, pureVars, viewVars, controllerVars, contentVars>>

\* document.deleteCell(index)
DeleteCell(index) ==
    /\ Settled
    /\ sent' = <<>>
    /\ IF index >= Len(cells)
       THEN /\ errorRaised' = FALSE
            /\ lastOp' = [name |-> "deleteCell", index |-> index, returned |-> FALSE,
                          old |-> cells, known |-> DOMAIN cellDisposableMapping]
            /\ UNCHANGED <<cellVars, docVars>>
       ELSE IF index < 0
       THEN \* this.cells[index] is undefined: reading cell.handle raises a TypeError
            /\ errorRaised' = TRUE
            /\ lastOp' = [name |-> "deleteCell", index |-> index,
                          old |-> cells, known |-> DOMAIN cellDisposableMapping]
            /\ UNCHANGED <<cellVars, docVars>>
       ELSE LET h == cells[index + 1]
                held == IF h \in DOMAIN cellDisposableMapping
                        THEN cellDisposableMapping[h] ELSE 0
            IN /\ listeners' = [listeners EXCEPT ![h] = @ - held]
               /\ cellDisposableMapping' = MapDelete(cellDisposableMapping, h)
               /\ cells' = ApplySplice(cells, index, 1, <<>>)
               /\ errorRaised' = FALSE
               /\ lastOp' = [name |-> "deleteCell", index |-> index, returned |-> TRUE,
                             cell |-> h, old |-> cells,
                             known |-> DOMAIN cellDisposableMapping]
               /\ UNCHANGED <<cellHandlePool, outputs, outputMapping>>
    /\ UNCHANGED <<envVars, pureVars, viewVars, controllerVars, contentVars>>

\* registerNotebookOutputRenderer
RegisterRenderer(subTypes) ==
    /\ Settled
    /\ notebookOutputRenderers' =
           Append(notebookOutputRenderers, [handle |-> rendererHandlePool, subTypes |-> subTypes])
    /\ rendererHandlePool' = rendererHandlePool + 1
    /\ sent' = <<[call |-> "registerRenderer", handle |-> rendererHandlePool]>>
    /\ errorRaised' = FALSE
    /\ lastOp' = [name |-> "registerRenderer"]
    /\ UNCHANGED <<cellVars, docVars, orderVars, pureVars, viewVars, controllerVars, contentVars>>

\* disposing the registration returned by registerNotebookOutputRenderer
UnregisterRenderer(i) ==
    /\ Settled
    /\ notebookOutputRenderers' =
           SubSeq(notebookOutputRenderers, 1, i - 1)
               \o SubSeq(notebookOutputRenderers, i + 1, Len(notebookOutputRenderers))
    /\ sent' = <<[call |-> "unregisterRenderer", handle |-> notebookOutputRenderers[i].handle]>>
    /\ errorRaised' = FALSE
    /\ lastOp' = [name |-> "unregisterRenderer"]
    /\ UNCHANGED <<rendererHandlePool, cellVars, docVars, orderVars, pureVars, viewVars, controllerVars, contentVars>>

\* $acceptDisplayOrder
AcceptDisplayOrder(displayOrder) ==
    /\ Settled
    /\ outputDisplayOrder' = displayOrder
    /\ sent' = <<>>
    /\ errorRaised' = FALSE
    /\ lastOp' = [name |-> "acceptDisplayOrder"]
    /\ UNCHANGED <<parsedDisplayOrder, notebookOutputRenderers, rendererHandlePool,
                   cellVars, docVars, pureVars, viewVars, controllerVars, contentVars>>

\* ------------------------------------------------------------------------
\* Specification of a document's cell list and its subscriptions: up to
\* MaxCells cells, each without outputs or with one display output (output 2
\* with two mimetypes, output 3 with none)
\* ------------------------------------------------------------------------
DocOutputLists == {<<>>, <<2>>, <<3>>}

Next ==
    \/ \E outs \in DocOutputLists : cellHandlePool < MaxCells /\ CreateCell(outs)
    \/ \E newCells \in CellLists : SetCells(newCells)
    \/ \E h \in CreatedCells, newOutputs \in DocOutputLists : SetOutputs(h, newOutputs)
    \/ \E index \in 0..(Len(cells) + 1) : cellHandlePool < MaxCells /\ CreateEmptyCell(index)
    \/ \E index \in (-1)..Len(cells) : DeleteCell(index)
    \/ Settle

Spec == Init /\ [][Next]_vars

\* ------------------------------------------------------------------------
\* Specification of the cells assignment alone: cells are created and the
\* provider assigns lists of them to document.cells
\* ------------------------------------------------------------------------
AssignOutputLists == {<<>>, <<2>>}

NextAssign ==
    \/ \E outs \in AssignOutputLists : cellHandlePool < MaxCells /\ CreateCell(outs)
    \/ \E newCells \in CellLists : SetCells(newCells)
    \/ Settle

SpecAssign == Init /\ [][NextAssign]_vars

\* ------------------------------------------------------------------------
\* Specification of one cell and its outputs: the cell is constructed with
\* any list of outputs (repeats included) and any lists are assigned to it
\* ------------------------------------------------------------------------
CellOutputLists == SeqsUpTo(Outputs, MaxLen)

NextOutputs ==
    \/ \E outs \in CellOutputLists : cellHandlePool = 0 /\ CreateCell(outs)
    \/ \E h \in CreatedCells, newOutputs \in CellOutputLists : SetOutputs(h, newOutputs)
    \/ Settle

SpecOutputs == Init /\ [][NextOutputs]_vars

\* ------------------------------------------------------------------------
\* ExtHostCell content: source lines and the attached text document
\* ------------------------------------------------------------------------
MaxTextLen == 3
MaxVersion == 3

\* characters of a text: a carriage return, a line feed, and any other character
CR == "CR"
LF == "LF"
Chars == {"a", CR, LF}
Texts == SeqsUpTo(Chars, MaxTextLen)

\* the length of the match of /\r|\n|\r\n/ at position i of text (0: no match):
\* the alternatives are tried from left to right
matchAt(text, i) ==
    IF text[i] = CR THEN 1
    ELSE IF text[i] = LF THEN 1
    ELSE IF i + 1 <= Len(text) /\ text[i] = CR /\ text[i + 1] = LF THEN 2
    ELSE 0

RECURSIVE splitFrom(_, _, _, _)
\* String.prototype.split with the global regular expression: lines holds
\* the pieces completed, from is where the current piece starts, i the
\* position the next match is looked for
splitFrom(text, lines, from, i) ==
    IF i > Len(text) THEN Append(lines, SubSeq(text, from, Len(text)))
    ELSE IF matchAt(text, i) = 0 THEN splitFrom(text, lines, from, i + 1)
    ELSE splitFrom(text, Append(lines, SubSeq(text, from, i - 1)),
                   i + matchAt(text, i), i + matchAt(text, i))

\* text.split(/\r|\n|\r\n/g)
split(text) == splitFrom(text, <<>>, 1, 1)

RECURSIVE join(_, _)
\* Array.prototype.join
join(lines, separator) ==
    IF lines = <<>> THEN <<>>
    ELSE IF Len(lines) = 1 THEN lines[1]
    ELSE lines[1] \o separator \o join(Tail(lines), separator)

\* this._textDocument && this._initalVersion !== this._textDocument.version
versionChanged(doc, initial) == doc.attached /\ initial # doc.version

\* ExtHostCell.getContent
getContent(lines, doc, initial) ==
    IF versionChanged(doc, initial) THEN doc.text ELSE join(lines, <<LF>>)

\* the state after new ExtHostCell(content, ..)
InitContent ==
    /\ \E content \in Texts : source = split(content)
    /\ textDocument = NoTextDocument
    /\ initalVersion = 0 - 1
    /\ phase = "input"
    /\ DiffIdle /\ OrderIdle /\ RankIdle /\ ResolveIdle /\ DocIdle /\ ViewIdle /\ ControllerIdle

besidesContent == <<cellVars, docVars, envVars, pureVars, viewVars, controllerVars>>

\* ExtHostCell.attachTextDocument(document)
AttachTextDocument(text, version) ==
    /\ Settled
    /\ textDocument' = [attached |-> TRUE, text |-> text, version |-> version]
    /\ initalVersion' = version
    /\ lastOp' = [name |-> "attachTextDocument"]
    /\ UNCHANGED <<source, sent, errorRaised, besidesContent>>

\* an edit of the attached document: its text is replaced, its version grows
EditTextDocument(text) ==
    /\ Settled
    /\ textDocument.attached
    /\ textDocument.version < MaxVersion
    /\ textDocument' = [textDocument EXCEPT !.text = text, !.version = @ + 1]
    /\ lastOp' = [name |-> "edit"]
    /\ UNCHANGED <<source, initalVersion, sent, errorRaised, besidesContent>>

\* ExtHostCell.detachTextDocument(document)
DetachTextDocument ==
    /\ Settled
    /\ source' = IF versionChanged(textDocument, initalVersion)
                 THEN split(textDocument.text)
                 ELSE source
    /\ textDocument' = NoTextDocument
    /\ initalVersion' = 0 - 1
    /\ lastOp' = [name |-> "detachTextDocument",
                  wasAttached |-> textDocument.attached,
                  changed |-> versionChanged(textDocument, initalVersion),
                  contentBefore |-> getContent(source, textDocument, initalVersion),
                  sourceBefore |-> source]
    /\ UNCHANGED <<sent, errorRaised, besidesContent>>

SettleContent ==
    /\ ~Settled
    /\ lastOp' = NoOp
    /\ UNCHANGED <<sent, errorRaised, contentVars, besidesContent>>

NextContent ==
    \/ \E text \in Texts, version \in 1..MaxVersion : AttachTextDocument(text, version)
    \/ \E text \in Texts : EditTextDocument(text)
    \/ DetachTextDocument
    \/ SettleContent

SpecContent == InitContent /\ [][NextContent]_vars

\* ------------------------------------------------------------------------
\* Specification of the notifications sent to the remote peer: up to
\* MaxNotifyCells cells with any outputs, renderers registered and disposed,
\* the display order pushed by the host
\* ------------------------------------------------------------------------
NotifyOutputLists == {l \in SeqsUpTo(Outputs, MaxOutputs) : NoRepeat(l)}

\* the display order the host pushes
HostDisplayOrder == PushedDisplayOrder(<<TextPlain, TextHtml>>, TRUE, <<ImageAny>>)

NextNotify ==
    \/ \E outs \in NotifyOutputLists : cellHandlePool < MaxNotifyCells /\ CreateCell(outs)
    \/ \E newCells \in CellLists : SetCells(newCells)
    \/ \E h \in CreatedCells, newOutputs \in NotifyOutputLists : SetOutputs(h, newOutputs)
    \/ \E subTypes \in RendererFilters :
           rendererHandlePool < MaxDocRenderers /\ RegisterRenderer(subTypes)
    \/ \E i \in 1..Len(notebookOutputRenderers) : UnregisterRenderer(i)
    \/ outputDisplayOrder # HostDisplayOrder /\ AcceptDisplayOrder(HostDisplayOrder)
    \/ Settle

SpecNotify == Init /\ [][NextNotify]_vars

\* ------------------------------------------------------------------------
\* Specification of the diff engine: one call on arbitrary bounded arguments
\* ------------------------------------------------------------------------
InitDiff ==
    /\ before \in SeqsUpTo(Elems, MaxLen)
    /\ after \in SeqsUpTo(Elems, MaxLen)
    /\ contains \in SUBSET Elems
    /\ result = <<>>
    /\ phase = "input"
    /\ OrderIdle /\ RankIdle /\ ResolveIdle /\ DocIdle /\ ViewIdle /\ ControllerIdle /\ ContentIdle

RunDiff ==
    /\ phase = "input"
    /\ result' = diff(before, after, contains)
    /\ phase' = "done"
    /\ UNCHANGED <<before, after, contains, orderVars, rankVars, resolveVars, cellVars, docVars, opVars, viewVars, controllerVars, contentVars>>

NextDiff == RunDiff

SpecDiff == InitDiff /\ [][NextDiff]_vars

\* ------------------------------------------------------------------------
\* Specification of the diff engine up to the names of the elements: diff
\* compares elements only by === and asks contains about them, so renaming
\* the elements in before, after and contains alike renames them in the
\* result; before is taken with its elements numbered by first occurrence,
\* after and contains are arbitrary
\* ------------------------------------------------------------------------
NumberedByFirstOccurrence(s) ==
    \A k \in 1..Len(s) : \A e \in 1..(s[k] - 1) : \E j \in 1..(k - 1) : s[j] = e

InitDiffRenamed == InitDiff /\ NumberedByFirstOccurrence(before)

SpecDiffRenamed == InitDiffRenamed /\ [][NextDiff]_vars

\* the contains callback answers true exactly for the members of before
ContainsIsMembership == contains = Range(before)

\* C1 (as stated): with contains true exactly for the members of before,
\* applying the splices of diff(before, after, contains) to before one after
\* another in list order, each at its stated start index, yields after.
C1_AppliedInOrderYieldsAfter ==
    (phase = "done" /\ ContainsIsMembership) => ApplyInOrder(before, result) = after

\* C1 (amended): with contains true exactly for the members of before,
\* applying the splices left to right, each start index shifted by the net
\* length change (inserted minus deleted) of the splices already applied,
\* yields after.
C1_AppliedShiftedYieldsAfter ==
    (phase = "done" /\ ContainsIsMembership) => ApplyShifted(before, result, 0) = after

\* a call with consistent contains whose first splice changes the length and
\* is followed by another splice
C1_Witness ==
    /\ phase = "done"
    /\ ContainsIsMembership
    /\ Len(result) >= 2
    /\ Len(result[1].toInsert) # result[1].deleteCount
    /\ ApplyShifted(before, result, 0) = after

\* C3: no two consecutive splices of a diff result are adjacent
\* (result[i].start + result[i].deleteCount differs from result[i+1].start),
\* and no splice has both deleteCount 0 and an empty inserted list, for every
\* contains predicate.
C3_NoAdjacentNoEmptySplice ==
    phase = "done" =>
        /\ \A i \in 1..(Len(result) - 1) :
               result[i].start + result[i].deleteCount # result[i + 1].start
        /\ \A i \in 1..Len(result) :
               ~(result[i].deleteCount = 0 /\ result[i].toInsert = <<>>)

\* a result of two splices whose first one was merged from a deletion and an insertion
C3_Witness ==
    /\ phase = "done"
    /\ Len(result) = 2
    /\ result[1].deleteCount >= 1
    /\ result[1].toInsert # <<>>

\* C4: diff(A, A, contains) is the empty splice list for every A and every
\* contains predicate.
C4_DiffOfEqualIsEmpty ==
    (phase = "done" /\ before = after) => result = <<>>

\* equal non-empty arguments, with a contains predicate that knows none of them
C4_Witness ==
    /\ phase = "done"
    /\ before = after
    /\ Len(before) >= 2
    /\ contains \cap Range(before) = {}
    /\ result = <<>>

WholeInsertion(b) == <<[start |-> 0, deleteCount |-> 0, toInsert |-> b]>>
WholeDeletion(a) == <<[start |-> 0, deleteCount |-> Len(a), toInsert |-> <<>>]>>

\* C5 (as stated): diff([], B, contains) is the one-element list
\* [{start 0, deleteCount 0, inserted B}] for every B, and diff(A, [], contains)
\* is [{start 0, deleteCount len(A), inserted []}] for every A.
C5_EmptySideGivesOneSplice ==
    phase = "done" =>
        /\ before = <<>> => result = WholeInsertion(after)
        /\ after = <<>> => result = WholeDeletion(before)

\* C5 (amended): the same for every non-empty B and every non-empty A;
\* diff([], [], contains) is the empty list.
C5_EmptySideGivesOneSpliceUnlessBothEmpty ==
    phase = "done" =>
        /\ (before = <<>> /\ after # <<>>) => result = WholeInsertion(after)
        /\ (after = <<>> /\ before # <<>>) => result = WholeDeletion(before)
        /\ (before = <<>> /\ after = <<>>) => result = <<>>

\* an empty before with two elements to insert, one of them known to contains
C5_Witness ==
    /\ phase = "done"
    /\ before = <<>>
    /\ Len(after) >= 2
    /\ contains \cap Range(after) # {}
    /\ result = WholeInsertion(after)

\* 0-based index of the first pattern of list that matches m, or Len(list)
FirstMatchIndex(list, m) ==
    IF \E i \in 1..Len(list) : GlobMatch(list[i], m)
    THEN (CHOOSE i \in 1..Len(list) :
              /\ GlobMatch(list[i], m)
              /\ \A j \in 1..(i - 1) : ~GlobMatch(list[j], m)) - 1
    ELSE Len(list)

\* the user and default orders as the claim counts them: empty while the host
\* has not pushed a display order
UserOrderOrEmpty == IF outputDisplayOrder.pushed THEN outputDisplayOrder.userOrder ELSE <<>>
DefaultOrderOrEmpty == IF outputDisplayOrder.pushed THEN outputDisplayOrder.defaultOrder ELSE <<>>

\* C10: the rank of a mimetype is the index of the first matching pattern in
\* userOrder ++ documentOrder ++ defaultOrder (user and default order counting
\* as empty while no display order has been pushed), or the total length when
\* none matches.
C10_RankIsFirstMatchInConcatenation ==
    phase = "done" =>
        order = FirstMatchIndex(UserOrderOrEmpty \o parsedDisplayOrder \o DefaultOrderOrEmpty,
                                mimeType)

\* the same restricted to calls made after a display order was pushed
RankIsFirstMatchOncePushed ==
    (phase = "done" /\ outputDisplayOrder.pushed) =>
        order = FirstMatchIndex(UserOrderOrEmpty \o parsedDisplayOrder \o DefaultOrderOrEmpty,
                                mimeType)

\* the example of the claim: U = [image/*], D = [], F = [text/plain, text/html]
RankExample ==
    (/\ phase = "done"
     /\ outputDisplayOrder = PushedDisplayOrder(<<TextPlain, TextHtml>>, TRUE, <<ImageAny>>)
     /\ parsedDisplayOrder = <<>>) =>
        order = CASE mimeType = ImagePng -> 0
                  [] mimeType = TextPlain -> 1
                  [] mimeType = TextHtml -> 2
                  [] OTHER -> 3

\* the mimetypes of the resolved output that have a matching registered renderer
RenderableKeys ==
    {m \in Range(outputData) : \E i \in 1..Len(notebookOutputRenderers) :
                                   m \in notebookOutputRenderers[i].subTypes}

\* C8 (as stated): one transformMimeTypes call invokes render only for the
\* candidate that ends up at the picked index, so at most once per resolution.
C8_OnlyPickedCandidateRendered ==
    phase = "done" =>
        /\ Len(renderCalls) <= 1
        /\ \A i \in 1..Len(renderCalls) :
               LET picked == transformed.orderedMimeTypes[transformed.pickedMimeTypeIndex + 1]
               IN /\ picked.isResolved
                  /\ picked.mimeType = renderCalls[i].mimeType
                  /\ picked.rendererId = renderCalls[i].renderer

\* C8 (amended): one transformMimeTypes call invokes render exactly once for
\* every mimetype of the output that has a matching renderer, on the
\* first-registered matching renderer, and never for another candidate; the
\* rendered candidates are exactly the resolved ones, whatever the picked index.
C8_OneRenderPerRenderableMimeType ==
    phase = "done" =>
        /\ Len(renderCalls) = Cardinality(RenderableKeys)
        /\ \A m \in RenderableKeys :
               \E i \in 1..Len(renderCalls) :
                   /\ renderCalls[i].mimeType = m
                   /\ \E j \in 1..Len(notebookOutputRenderers) :
                          /\ notebookOutputRenderers[j].handle = renderCalls[i].renderer
                          /\ m \in notebookOutputRenderers[j].subTypes
                          /\ \A k \in 1..(j - 1) : m \notin notebookOutputRenderers[k].subTypes
        /\ \A i \in 1..Len(renderCalls) :
               \E c \in 1..Len(transformed.orderedMimeTypes) :
                   /\ transformed.orderedMimeTypes[c].isResolved
                   /\ transformed.orderedMimeTypes[c].mimeType = renderCalls[i].mimeType
                   /\ transformed.orderedMimeTypes[c].rendererId = renderCalls[i].renderer
        /\ Cardinality({c \in 1..Len(transformed.orderedMimeTypes) :
                            transformed.orderedMimeTypes[c].isResolved}) = Len(renderCalls)

\* two mimetypes, both with two matching renderers: two render invocations
C8_Witness ==
    /\ phase = "done"
    /\ Len(outputData) = 2
    /\ Len(renderCalls) = 2
    /\ Len(notebookOutputRenderers) = 2
    /\ \A m \in Range(outputData) :
           Len(findBestMatchedRenderer(notebookOutputRenderers, m)) = 2

\* the rank of a mimetype under the current display orders
RankOf(m) == getMimeTypeOrder(m, outputDisplayOrder, parsedDisplayOrder)

\* the top-ranked mimetype of the output: lowest rank, first in key order among equals
TopRanked ==
    outputData[CHOOSE i \in 1..Len(outputData) :
                   /\ \A j \in 1..Len(outputData) : RankOf(outputData[i]) <= RankOf(outputData[j])
                   /\ \A j \in 1..(i - 1) : RankOf(outputData[j]) > RankOf(outputData[i])]

SubscriptionsMatchCells ==
    /\ DOMAIN cellDisposableMapping = Range(cells)
    /\ \A h \in DOMAIN cellDisposableMapping : cellDisposableMapping[h] = 1
    /\ \A h \in CellHandles : listeners[h] = IF h \in Range(cells) THEN 1 ELSE 0

\* an outputs assignment is delivered to one listener for a cell in cells and
\* to none for a cell outside cells
OutputsDeliveredOncePerCell ==
    lastOp.name = "setOutputs" =>
        lastOp.delivered = IF lastOp.cell \in Range(cells) THEN 1 ELSE 0

\* C2: after any sequence of cells assignments, create-empty-cell insertions
\* and delete-cell removals, the subscription map's keys are exactly the
\* handles of the cells in cells; every cell in cells has exactly one live
\* output-change listener, so that one outputs assignment on it is forwarded
\* as exactly one spliceCellOutputs call, and a cell removed from cells has
\* none, so that its outputs assignments are forwarded zero times.
C2_OneSubscriptionPerCell ==
    /\ SubscriptionsMatchCells
    /\ OutputsDeliveredOncePerCell
    /\ lastOp.name = "setOutputs" =>
           /\ Len(sent) = IF lastOp.cell \in Range(cells) THEN 1 ELSE 0
           /\ \A i \in 1..Len(sent) :
                  sent[i].call = "spliceCellOutputs" /\ sent[i].cellHandle = lastOp.cell

\* the splices of a spliceCells call, each inserted transport record reduced to its handle
SplicesByHandle(splices) ==
    [k \in 1..Len(splices) |->
        [start |-> splices[k].start,
         deleteCount |-> splices[k].deleteCount,
         toInsert |-> [j \in 1..Len(splices[k].toInsert) |-> splices[k].toInsert[j].handle]]]

\* the transport records of a spliceCells call
InsertedRecords(splices) == Flatten([k \in 1..Len(splices) |-> splices[k].toInsert])

\* the example of the claim, with the handles the code assigns (0, 1, 2)
CellsExample == lastOp.name = "setCells" /\ lastOp.old = <<0, 1, 2>> /\ cells = <<0, 2>>

\* C6: every assignment to a document's cells forwards exactly one spliceCells
\* call, whose splices are diff(old cells, new cells, handle-is-subscribed)
\* with every inserted cell replaced by its transport record; with old
\* [c1, c2, c3] and new [c1, c3] the call carries the single splice
\* {start 1, deleteCount 1, inserted []} and the subscription map holds exactly
\* the handles of c1 and c3.
C6_OneSpliceCellsPerAssignment ==
    lastOp.name = "setCells" =>
        /\ Len(sent) = 1
        /\ sent[1].call = "spliceCells"
        /\ SplicesByHandle(sent[1].splices) = diff(lastOp.old, cells, lastOp.known)
        /\ \A i \in 1..Len(InsertedRecords(sent[1].splices)) :
               LET rec == InsertedRecords(sent[1].splices)[i]
               IN /\ rec.isDirty = FALSE
                  /\ Len(rec.outputs) = Len(outputs[rec.handle])
                  /\ \A j \in 1..Len(rec.outputs) :
                         /\ rec.outputs[j].output_type = OutputTable[outputs[rec.handle][j]].output_type
                         /\ rec.outputs[j].data = OutputTable[outputs[rec.handle][j]].data
                         /\ isTransformed(rec.outputs[j])
                                = isDisplay(OutputTable[outputs[rec.handle][j]].output_type)
        /\ CellsExample =>
               /\ SplicesByHandle(sent[1].splices)
                      = <<[start |-> 1, deleteCount |-> 1, toInsert |-> <<>>]>>
               /\ DOMAIN cellDisposableMapping = {0, 2}

\* the same for the assignments that raise no error
OneSpliceCellsUnlessError ==
    (lastOp.name = "setCells" /\ ~errorRaised) => C6_OneSpliceCellsPerAssignment

\* the example of the claim is reached and behaves as claimed
CellsExampleReached ==
    /\ CellsExample
    /\ Len(sent) = 1
    /\ SplicesByHandle(sent[1].splices) = <<[start |-> 1, deleteCount |-> 1, toInsert |-> <<>>]>>
    /\ DOMAIN cellDisposableMapping = {0, 2}

\* the transformed outputs carried by a call: of its inserted cells for
\* spliceCells, its inserted outputs for spliceCellOutputs
TransformedOutputsOf(c) ==
    LET all == IF c.call = "spliceCells"
               THEN Flatten([i \in 1..Len(InsertedRecords(c.splices)) |->
                                InsertedRecords(c.splices)[i].outputs])
               ELSE InsertedRecords(c.splices)
    IN {all[i] : i \in {j \in 1..Len(all) : isTransformed(all[j])}}

\* the renderer handles of all resolved candidates of a set of transformed outputs
ResolvedRenderers(dtos) ==
    UNION {{d.orderedMimeTypes[c].rendererId :
               c \in {k \in 1..Len(d.orderedMimeTypes) : d.orderedMimeTypes[k].isResolved}} :
           d \in dtos}

\* C7: the used-renderers set sent with every spliceCells and
\* spliceCellOutputs notification is the set of renderer handles of all
\* resolved candidates of all outputs transformed for that notification.
C7_UsedRenderersAreAllResolved ==
    \A i \in 1..Len(sent) :
        sent[i].call \in {"spliceCells", "spliceCellOutputs"} =>
            sent[i].renderers = ResolvedRenderers(TransformedOutputsOf(sent[i]))

\* what the code sends: the renderers of the resolved candidates at the picked index
UsedRenderersArePickedResolved ==
    \A i \in 1..Len(sent) :
        sent[i].call \in {"spliceCells", "spliceCellOutputs"} =>
            sent[i].renderers =
                {d.orderedMimeTypes[d.pickedMimeTypeIndex + 1].rendererId :
                    d \in {x \in TransformedOutputsOf(sent[i]) :
                              x.orderedMimeTypes[x.pickedMimeTypeIndex + 1].isResolved}}

\* ------------------------------------------------------------------------
\* Presentation side: CodeCell
\* ------------------------------------------------------------------------
\* the renderers that resolved the outputs shown by the cell
ViewRegistry ==
    <<[handle |-> 0, subTypes |-> {ImagePng}],
      [handle |-> 1, subTypes |-> {TextPlain, ImagePng}]>>

\* the IOutput objects of the cell view model, by identity: a stream output
\* and a display output with three candidates for image/png (resolved by
\* renderer 0, unresolved for renderer 1, unresolved builtin)
ViewOutputTable ==
    <<[output_type |-> "stream"],
      transformMimeTypes("display_data", <<ImagePng>>, ViewRegistry, NoDisplayOrder, <<>>).ret>>
ViewOutputs == DOMAIN ViewOutputTable

\* orderedMimeTypes of an output (none for a stream or error output)
candidatesOfOutput(o) ==
    IF isDisplay(ViewOutputTable[o].output_type) THEN ViewOutputTable[o].orderedMimeTypes ELSE <<>>

\* IRenderOutput | undefined, as returned by notebookEditor.getOutputRenderer().render
RenderResults ==
    {[defined |-> FALSE, shadowContent |-> FALSE, hasDynamicHeight |-> FALSE]} \cup
    {[defined |-> TRUE, shadowContent |-> s, hasDynamicHeight |-> d] : s, d \in BOOLEAN}

\* outputItemDiv.clientHeight of a mounted element
clientHeight == 10

\* the mimetype argument of a render call for an output without mimetypes (undefined)
NoMimeType == [type |-> "undefined", sub |-> "undefined"]

\* a new DisposableStore: the listeners it holds, by kind
EmptyStore == [picker |-> 0, observer |-> 0]

\* viewCell.updateOutputHeight(index, height): the call is recorded; the
\* tracked height at a position of the output list is replaced
updateOutputHeight(st, index, height) ==
    [st EXCEPT
        !.calls = Append(@, [call |-> "updateOutputHeight", index |-> index, height |-> height]),
        !.heights = IF index \in 0..(Len(st.heights) - 1)
                    THEN [st.heights EXCEPT ![index + 1] = height]
                    ELSE st.heights]

\* the renderer id that stands for the editor's own (builtin) output renderer
BuiltinRendererId == -1

\* the call on the editor's output renderer made by renderOutput: the
\* pre-rendered content of a resolved picked candidate as text/html, the
\* output itself by the mimetype of an unresolved picked candidate, or the
\* output without a mimetype for stream and error outputs; renderer is the
\* renderer the call is made on, always notebookEditor.getOutputRenderer()
renderCall(currOutput, picked) ==
    IF ~isDisplay(ViewOutputTable[currOutput].output_type)
    THEN [call |-> "render", renderer |-> BuiltinRendererId, output |-> currOutput,
          mimeType |-> NoMimeType, prerendered |-> FALSE]
    ELSE IF candidatesOfOutput(currOutput)[picked + 1].isResolved
    THEN [call |-> "render", renderer |-> BuiltinRendererId, output |-> currOutput,
          mimeType |-> TextHtml, prerendered |-> TRUE]
    ELSE [call |-> "render", renderer |-> BuiltinRendererId, output |-> currOutput,
          mimeType |-> candidatesOfOutput(currOutput)[picked + 1].mimeType,
          prerendered |-> FALSE]

\* a sequence with x inserted before the element b (Node.insertBefore)
InsertBefore(seq, x, b) ==
    LET i == CHOOSE k \in 1..Len(seq) : seq[k] = b
    IN SubSeq(seq, 1, i - 1) \o <<x>> \o SubSeq(seq, i, Len(seq))

\* a JavaScript Map as the sequence of its [key, value] entries in insertion order
EntryKeys(entries) == {entries[k].key : k \in DOMAIN entries}
HasEntry(entries, key) == key \in EntryKeys(entries)
GetEntry(entries, key) == (CHOOSE e \in Range(entries) : e.key = key).value
\* Map.prototype.set: an existing key keeps its place
PutEntry(entries, key, value) ==
    IF HasEntry(entries, key)
    THEN [k \in DOMAIN entries |->
             IF entries[k].key = key THEN [key |-> key, value |-> value] ELSE entries[k]]
    ELSE Append(entries, [key |-> key, value |-> value])
\* Map.prototype.delete
DeleteEntries(entries, keys) == SelectSeq(entries, LAMBDA e : e.key \notin keys)

\* document.createElement('div') in renderOutput: the div made for an output
\* is identified by that output, since the cell refers to at most one div per
\* output at a time (the div of a re-rendered output is unmounted first, and
\* its entry in outputElements is overwritten by the new div)
createElement(st, currOutput) == currOutput

\* renderOutput, lines 211-213: the output gets a DisposableStore if it has none
ensureStore(st, currOutput) ==
    IF currOutput \in DOMAIN st.stores THEN st
    ELSE [st EXCEPT !.stores = MapSet(@, currOutput, EmptyStore)]

\* renderOutput, lines 221-231: the mousedown listener of the mimetype picker
\* is added to the output's store
addPickerListener(st, currOutput) ==
    IF isDisplay(ViewOutputTable[currOutput].output_type) /\ Len(candidatesOfOutput(currOutput)) > 1
    THEN [st EXCEPT !.stores[currOutput].picker = @ + 1, !.live[currOutput].picker = @ + 1]
    ELSE st

\* renderOutput, line 250
setOutputElement(st, currOutput) ==
    [st EXCEPT !.elements = PutEntry(@, currOutput, createElement(st, currOutput))]

\* renderOutput, lines 252-256
mountOutputElement(st, currOutput, beforeElement) ==
    [st EXCEPT
        !.container = IF beforeElement # {}
                      THEN InsertBefore(@, GetEntry(st.elements, currOutput),
                                        CHOOSE b \in beforeElement : TRUE)
                      ELSE Append(@, GetEntry(st.elements, currOutput))]

\* renderOutput, lines 258-264
createInset(st, currOutput, res) ==
    IF res.shadowContent
    THEN [st EXCEPT
             !.insets = @ \cup {currOutput},
             !.calls = Append(@, [call |-> "createInset", output |-> currOutput])]
    ELSE st

\* renderOutput, lines 266-310: an element of dynamic height gets a size
\* observer, started and added to the store; the height of the mounted
\* element is tracked, except for a webview of static height
trackOutputHeight(st, currOutput, index, res) ==
    IF res.hasDynamicHeight
    THEN updateOutputHeight(
             [st EXCEPT !.stores[currOutput].observer = @ + 1,
                        !.live[currOutput].observer = @ + 1],
             index, clientHeight)
    ELSE IF res.shadowContent THEN st
    ELSE updateOutputHeight(st, index, clientHeight)

\* renderOutput up to the call on the editor's output renderer, lines 211-243
renderOutputItem(st, currOutput, picked) ==
    [addPickerListener(ensureStore(st, currOutput), currOutput) EXCEPT
        !.calls = Append(@, renderCall(currOutput, picked))]

\* CodeCell.renderOutput(currOutput, index, beforeElement) on the state st of
\* the cell; beforeElement is a set with at most one element, res is what
\* the editor's output renderer returns and picked is currOutput.pickedMimeTypeIndex.
\* Reading isResolved of a missing candidate raises a TypeError, and
\* insertBefore of a reference node that is not a child a NotFoundError
renderOutput(st, currOutput, index, beforeElement, res, picked) ==
    IF /\ isDisplay(ViewOutputTable[currOutput].output_type)
       /\ (picked < 0 \/ picked + 1 > Len(candidatesOfOutput(currOutput)))
    THEN [addPickerListener(ensureStore(st, currOutput), currOutput) EXCEPT !.threw = TRUE]
    ELSE IF ~res.defined
    THEN updateOutputHeight(renderOutputItem(st, currOutput, picked), index, 0)
    ELSE IF beforeElement # {} /\ ~(beforeElement \subseteq Range(st.container))
    THEN [setOutputElement(renderOutputItem(st, currOutput, picked), currOutput) EXCEPT !.threw = TRUE]
    ELSE trackOutputHeight(
             createInset(
                 mountOutputElement(
                     setOutputElement(renderOutputItem(st, currOutput, picked), currOutput),
                     currOutput, beforeElement),
                 currOutput, res),
             currOutput, index, res)

\* the state of the cell that renderOutput and the handlers work on, with the
\* calls made on the editor and the view model and whether an error was raised
ViewState ==
    [elements |-> outputElements, stores |-> outputResizeListeners, live |-> liveListeners,
     container |-> outputContainer, heights |-> outputHeights, insets |-> insets,
     calls |-> <<>>, threw |-> FALSE]

\* notebookEditor.layoutNotebookCell, unless an error ended the handler before it
layoutNotebookCell(st) ==
    IF st.threw THEN st ELSE [st EXCEPT !.calls = Append(@, [call |-> "layoutNotebookCell"])]

\* 0-based Array.prototype.indexOf, -1 when absent
IndexOf(seq, x) ==
    IF x \in Range(seq) THEN (CHOOSE k \in 1..Len(seq) : seq[k] = x /\ \A j \in 1..(k - 1) : seq[j] # x) - 1
    ELSE 0 - 1

\* Array.prototype.reverse
Reverse(seq) == [k \in 1..Len(seq) |-> seq[Len(seq) + 1 - k]]

\* a sequence without the element x (Node.removeChild)
RemoveChild(seq, x) ==
    LET keep == {k \in 1..Len(seq) : seq[k] # x}
        RECURSIVE pick(_)
        pick(k) == IF k > Len(seq) THEN <<>>
                   ELSE IF k \in keep THEN <<seq[k]>> \o pick(k + 1) ELSE pick(k + 1)
    IN pick(1)

\* outputElements.get(o) as a set: empty when the map has no entry (undefined)
elementOf(st, o) == IF HasEntry(st.elements, o) THEN {GetEntry(st.elements, o)} ELSE {}

RECURSIVE renderInitial(_, _, _, _, _)
\* the for loop of the constructor: every output is rendered at the end of the
\* container; an error ends the loop
renderInitial(st, outs, index, results, picked) ==
    IF st.threw \/ index >= Len(outs) THEN st
    ELSE renderInitial(
             renderOutput(st, outs[index + 1], index, {}, results[outs[index + 1]],
                          picked[outs[index + 1]]),
             outs, index + 1, results, picked)

RECURSIVE spliceOutputHeights(_, _)
\* reversedSplices.forEach: viewCell.spliceOutputHeights(start, deleteCount, zeros)
spliceOutputHeights(heights, splices) ==
    IF splices = <<>> THEN heights
    ELSE spliceOutputHeights(
             ApplySplice(heights, Head(splices).start, Head(splices).deleteCount,
                         [k \in 1..Len(Head(splices).toInsert) |-> 0]),
             Tail(splices))

\* lines 157-158 for one entry of outputElements: removeChild of a node that
\* is not a child raises NotFoundError
removeOutputElement(st, entry) ==
    IF entry.value \notin Range(st.container) THEN [st EXCEPT !.threw = TRUE]
    ELSE [st EXCEPT
             !.container = RemoveChild(@, entry.value),
             !.insets = @ \ {entry.key},
             !.calls = Append(@, [call |-> "removeInset", output |-> entry.key])]

RECURSIVE removeGone(_, _, _)
\* outputElements.forEach, in insertion order from entry k on: the element of
\* every output that is no longer among the cell's outputs is removed from the
\* container, and its inset removed
removeGone(st, k, outs) ==
    IF st.threw \/ k > Len(st.elements) THEN st
    ELSE IF st.elements[k].key \in Range(outs) THEN removeGone(st, k + 1, outs)
    ELSE removeGone(removeOutputElement(st, st.elements[k]), k + 1, outs)

\* removedKeys.forEach: the entries of the removed outputs leave outputElements
\* and outputResizeListeners (the stores are dropped, not disposed)
forgetGone(st, outs) ==
    IF st.threw THEN st
    ELSE [st EXCEPT
             !.elements = DeleteEntries(@, EntryKeys(st.elements) \ Range(outs)),
             !.stores = [o \in DOMAIN st.stores \ (EntryKeys(st.elements) \ Range(outs)) |->
                            st.stores[o]]]

\* the body of the forEach of lines 171-182 for the output at position k of
\* the reversed list: an output without an element is rendered at its index
\* in that list, before the element of the output handled just before
renderIfAdded(st, reversed, k, results, picked) ==
    IF HasEntry(st.elements, reversed[k]) THEN st
    ELSE renderOutput(st, reversed[k], IndexOf(reversed, reversed[k]),
                      IF k > 1 THEN elementOf(st, reversed[k - 1]) ELSE {},
                      results[reversed[k]], picked[reversed[k]])

RECURSIVE renderAdded(_, _, _, _, _)
\* this.viewCell.outputs.reverse().forEach, from position k on; prevElement is
\* always outputElements.get of the output handled just before
renderAdded(st, reversed, k, results, picked) ==
    IF st.threw \/ k > Len(reversed) THEN st
    ELSE renderAdded(renderIfAdded(st, reversed, k, results, picked), reversed, k + 1,
                     results, picked)

\* lines 144-167 of the handler
cleanRemovedOutputs(st, outs, reversedSplices) ==
    forgetGone(
        removeGone([st EXCEPT !.heights = spliceOutputHeights(@, reversedSplices)], 1, outs),
        outs)

\* lines 169-187 of the handler, skipped when an error was raised before
renderAddedOutputs(st, reversed, results, picked) ==
    IF st.threw THEN st
    ELSE layoutNotebookCell(renderAdded(st, reversed, 1, results, picked))

\* the onDidChangeOutputs handler of the constructor, for the output list outs
\* the view model holds when the event is delivered; the handler reverses the
\* delivered splices and the view model's outputs in place
onDidChangeOutputs(st, outs, splices, results, picked) ==
    IF splices = <<>> THEN [view |-> st, outs |-> outs, splices |-> splices]
    ELSE [view |-> renderAddedOutputs(cleanRemovedOutputs(st, outs, Reverse(splices)),
                                      Reverse(outs), results, picked),
          outs |-> IF cleanRemovedOutputs(st, outs, Reverse(splices)).threw
                   THEN outs ELSE Reverse(outs),
          splices |-> Reverse(splices)]

\* line 362: the listeners in the output's store are disposed
clearStore(st, output) ==
    IF output \in DOMAIN st.stores
    THEN [st EXCEPT
             !.live[output] = [picker |-> @.picker - st.stores[output].picker,
                               observer |-> @.observer - st.stores[output].observer],
             !.stores[output] = EmptyStore]
    ELSE st

\* lines 363-367: the element the output has is unmounted and its inset removed
removeOldElement(st, output) ==
    IF ~HasEntry(st.elements, output) THEN st
    ELSE removeOutputElement(st, [key |-> output, value |-> GetEntry(st.elements, output)])

\* line 361: the element of the output after this one, if any
nextElementOf(st, outs, output) ==
    IF IndexOf(outs, output) + 1 < Len(outs)
    THEN elementOf(st, outs[IndexOf(outs, output) + 2])
    ELSE {}

\* lines 371-374, skipped when an error was raised before
renderPicked(st, outs, output, pick, res) ==
    IF st.threw THEN st
    ELSE layoutNotebookCell(
             renderOutput(st, output, IndexOf(outs, output), nextElementOf(st, outs, output),
                          res, pick))

\* lines 358-375 of pickActiveMimeTypeRenderer: the user accepted another
\* index; picked tells whether output.pickedMimeTypeIndex was assigned
changePickedMimeType(st, outs, output, pick, res) ==
    [view |-> renderPicked(removeOldElement(clearStore(st, output), output), outs, output, pick, res),
     picked |-> ~removeOldElement(clearStore(st, output), output).threw]

\* the output lists of the cell view model: distinct outputs
ViewOutputLists == {l \in SeqsUpTo(ViewOutputs, MaxViewOutputs) : NoRepeat(l)}

\* the listeners of output o held by its store in outputResizeListeners
storedListeners(st, o) == IF o \in DOMAIN st.stores THEN st.stores[o] ELSE EmptyStore

\* the listener counts stay within MaxListeners: per output and kind, the
\* listeners its store holds, and the undisposed ones no store holds any more
WithinListenerBound(st) ==
    \A o \in ViewOutputs :
        /\ storedListeners(st, o).picker <= MaxListeners
        /\ storedListeners(st, o).observer <= MaxListeners
        /\ st.live[o].picker - storedListeners(st, o).picker <= MaxListeners
        /\ st.live[o].observer - storedListeners(st, o).observer <= MaxListeners

\* the cell's state after a handler
CommitView(st) ==
    /\ outputElements' = st.elements
    /\ outputResizeListeners' = st.stores
    /\ liveListeners' = st.live
    /\ outputContainer' = st.container
    /\ outputHeights' = st.heights
    /\ insets' = st.insets
    /\ sent' = st.calls
    /\ errorRaised' = st.threw

\* the variables of the other specifications
hostVars == <<cellVars, docVars, envVars, pureVars, controllerVars, contentVars>>

\* a cell view model with its outputs, not yet shown
InitCell ==
    /\ viewOutputs \in ViewOutputLists
    /\ pickedMimeTypeIndex = [o \in ViewOutputs |-> 0]
    /\ outputElements = <<>>
    /\ outputResizeListeners = <<>>
    /\ outputContainer = <<>>
    /\ outputHeights = [k \in 1..Len(viewOutputs) |-> 0]
    /\ insets = {}
    /\ liveListeners = [o \in ViewOutputs |-> EmptyStore]
    /\ prompt = [open |-> FALSE]
    /\ textModel = [state |-> "none"]
    /\ cellState = "new"
    /\ sent = <<>>
    /\ errorRaised = FALSE
    /\ lastOp = NoOp
    /\ cellHandlePool = 0
    /\ outputs = <<>>
    /\ outputMapping = <<>>
    /\ listeners = <<>>
    /\ cells = <<>>
    /\ cellDisposableMapping = <<>>
    /\ phase = "input"
    /\ DiffIdle /\ OrderIdle /\ RankIdle /\ ResolveIdle /\ ControllerIdle /\ ContentIdle

\* new CodeCell(...): the text model starts resolving, the handlers are
\* registered and the outputs the cell already has are rendered
ConstructCell(results) ==
    LET rendered == renderInitial(ViewState, viewOutputs, 0, results, pickedMimeTypeIndex)
        st == IF Len(viewOutputs) > 0 THEN layoutNotebookCell(rendered) ELSE ViewState
    IN /\ Settled
       /\ cellState = "new"
       /\ CommitView(st)
       /\ cellState' = IF st.threw THEN "failed" ELSE "live"
       /\ textModel' = [state |-> "resolving", raced |-> "pending", attached |-> FALSE]
       /\ lastOp' = [name |-> "constructor", rendered |-> Range(viewOutputs), results |-> results]
       /\ UNCHANGED <<viewOutputs, pickedMimeTypeIndex, prompt, hostVars>>

\* the view model's outputs become newOutputs and its onDidChangeOutputs event
\* is delivered with the splices between the two lists
SpliceOutputs(newOutputs, results) ==
    LET splices == diff(viewOutputs, newOutputs, Range(viewOutputs))
        r == onDidChangeOutputs(ViewState, newOutputs, splices, results, pickedMimeTypeIndex)
    IN /\ Settled
       /\ cellState = "live"
       /\ newOutputs # viewOutputs
       /\ WithinListenerBound(r.view)
       /\ CommitView(r.view)
       /\ viewOutputs' = r.outs
       /\ lastOp' = [name |-> "onDidChangeOutputs", old |-> viewOutputs, new |-> newOutputs,
                     delivered |-> splices, splices |-> r.splices,
                     rendered |-> Range(newOutputs) \ EntryKeys(outputElements),
                     results |-> results, elementsBefore |-> outputElements]
       /\ UNCHANGED <<pickedMimeTypeIndex, prompt, textModel, cellState, hostVars>>

\* mousedown on the mimetype picker of a mounted output: pickActiveMimeTypeRenderer
\* runs up to the quick pick, which shows one prompt at a time
OpenPrompt(output) ==
    /\ Settled
    /\ ~prompt.open
    /\ HasEntry(outputElements, output)
    /\ GetEntry(outputElements, output) \in Range(outputContainer)
    /\ output \in DOMAIN outputResizeListeners
    /\ outputResizeListeners[output].picker > 0
    /\ prompt' = [open |-> TRUE, output |-> output, currIndex |-> pickedMimeTypeIndex[output]]
    /\ sent' = <<>>
    /\ errorRaised' = FALSE
    /\ lastOp' = [name |-> "showPicker", output |-> output]
    /\ UNCHANGED <<viewOutputs, pickedMimeTypeIndex, outputElements, outputResizeListeners,
                   outputContainer, outputHeights, insets, liveListeners, textModel, cellState,
                   hostVars>>

\* the quick pick is hidden without onDidAccept: the promise never resolves
DismissPrompt ==
    /\ Settled
    /\ prompt.open
    /\ prompt' = [open |-> FALSE]
    /\ sent' = <<>>
    /\ errorRaised' = FALSE
    /\ lastOp' = [name |-> "pickActiveMimeTypeRenderer", output |-> prompt.output,
                  outcome |-> "dismissed"]
    /\ UNCHANGED <<viewOutputs, pickedMimeTypeIndex, outputElements, outputResizeListeners,
                   outputContainer, outputHeights, insets, liveListeners, textModel, cellState,
                   hostVars>>

\* re-rendering on every accepted single item, the current one included
pickChanges_OnAnySingleItem(selected, currIndex) ==
    Cardinality(selected) = 1

\* pick !== undefined and pick !== currIndex, where pick is the index of the
\* one selected item and undefined for any other number of selected items
pickChanges(selected, currIndex) ==
    Cardinality(selected) = 1 /\ selected # {currIndex}

\* onDidAccept with selected, the set of indices of the selected items; the
\* rest of pickActiveMimeTypeRenderer runs
AcceptPrompt(selected, res) ==
    LET output == prompt.output
        pick == CHOOSE k \in selected : TRUE
        change == pickChanges(selected, prompt.currIndex)
        r == changePickedMimeType(ViewState, viewOutputs, output, pick, res)
    IN /\ Settled
       /\ prompt.open
       /\ prompt' = [open |-> FALSE]
       /\ IF change
          THEN /\ WithinListenerBound(r.view)
               /\ CommitView(r.view)
               /\ pickedMimeTypeIndex' = IF r.picked
                                         THEN [pickedMimeTypeIndex EXCEPT ![output] = pick]
                                         ELSE pickedMimeTypeIndex
               /\ lastOp' = [name |-> "pickActiveMimeTypeRenderer", output |-> output,
                             outcome |-> "changed", pick |-> pick, selected |-> selected,
                             currIndex |-> prompt.currIndex, result |-> res,
                             index |-> IndexOf(viewOutputs, output)]
          ELSE /\ sent' = <<>>
               /\ errorRaised' = FALSE
               /\ lastOp' = [name |-> "pickActiveMimeTypeRenderer", output |-> output,
                             outcome |-> IF Cardinality(selected) = 1 THEN "same" ELSE "undefined",
                             selected |-> selected, currIndex |-> prompt.currIndex]
               /\ UNCHANGED <<pickedMimeTypeIndex, outputElements, outputResizeListeners,
                              outputContainer, outputHeights, insets, liveListeners>>
       /\ UNCHANGED <<viewOutputs, textModel, cellState, hostVars>>

\* viewCell.resolveTextModel() completes: raceCancellation settles with the
\* model unless the token was cancelled first
ResolveTextModel ==
    /\ Settled
    /\ textModel.state = "resolving"
    /\ textModel' = [textModel EXCEPT
                        !.state = "resolved",
                        !.raced = IF @ = "pending" THEN "model" ELSE @]
    /\ sent' = <<>>
    /\ errorRaised' = FALSE
    /\ lastOp' = [name |-> "resolveTextModel"]
    /\ UNCHANGED <<viewOutputs, pickedMimeTypeIndex, outputElements, outputResizeListeners,
                   outputContainer, outputHeights, insets, liveListeners, prompt, cellState,
                   hostVars>>

\* the then callback attaching whatever the race gave, cancelled or not
AttachTextModel_IgnoresCancel ==
    /\ Settled
    /\ textModel.state \in {"resolving", "resolved"}
    /\ textModel.raced # "pending"
    /\ textModel' = [textModel EXCEPT
                        !.state = IF @ = "resolved" THEN "continued" ELSE "cancelled",
                        !.attached = TRUE]
    /\ sent' = <<[call |-> "setModel"], [call |-> "attachTextEditor"]>>
    /\ errorRaised' = FALSE
    /\ lastOp' = [name |-> "raceCancellation.then"]
    /\ UNCHANGED <<viewOutputs, pickedMimeTypeIndex, outputElements, outputResizeListeners,
                   outputContainer, outputHeights, insets, liveListeners, prompt, cellState,
                   hostVars>>

\* the then callback of raceCancellation(...): the editor gets the model and
\* is attached to the cell when the race was won by the model
AttachTextModel ==
    /\ Settled
    /\ textModel.state \in {"resolving", "resolved"}
    /\ textModel.raced # "pending"
    /\ textModel' = [textModel EXCEPT
                        !.state = IF @ = "resolved" THEN "continued" ELSE "cancelled",
                        !.attached = (textModel.raced = "model")]
    /\ sent' = IF textModel.raced = "model"
               THEN <<[call |-> "setModel"], [call |-> "attachTextEditor"]>>
               ELSE <<>>
    /\ errorRaised' = FALSE
    /\ lastOp' = [name |-> "raceCancellation.then"]
    /\ UNCHANGED <<viewOutputs, pickedMimeTypeIndex, outputElements, outputResizeListeners,
                   outputContainer, outputHeights, insets, liveListeners, prompt, cellState,
                   hostVars>>

\* CodeCell.dispose(): every store in outputResizeListeners is disposed, then
\* the registered disposables: the token is cancelled and the handlers leave
DisposeCell ==
    /\ Settled
    /\ cellState = "live"
    /\ cellState' = "disposed"
    /\ liveListeners' =
           [o \in ViewOutputs |->
               IF o \in DOMAIN outputResizeListeners
               THEN [picker |-> liveListeners[o].picker - outputResizeListeners[o].picker,
                     observer |-> liveListeners[o].observer - outputResizeListeners[o].observer]
               ELSE liveListeners[o]]
    /\ outputResizeListeners' = [o \in DOMAIN outputResizeListeners |-> EmptyStore]
    /\ textModel' = [textModel EXCEPT !.raced = IF @ = "pending" THEN "undefined" ELSE @]
    /\ sent' = <<>>
    /\ errorRaised' = FALSE
    /\ lastOp' = [name |-> "dispose"]
    /\ UNCHANGED <<viewOutputs, pickedMimeTypeIndex, outputElements, outputContainer,
                   outputHeights, insets, prompt, hostVars>>

\* rendering by a constructed cell: initial render, output splices, picker
NextCell ==
    \/ \E results \in [Range(viewOutputs) -> RenderResults] : ConstructCell(results)
    \/ \E newOutputs \in ViewOutputLists :
           \E results \in [Range(newOutputs) \ EntryKeys(outputElements) -> RenderResults] :
               SpliceOutputs(newOutputs, results)
    \/ \E output \in ViewOutputs : OpenPrompt(output)
    \/ DismissPrompt
    \/ \E selected \in {{}} \cup {{k} : k \in 0..2} \cup {{0, 1}}, res \in RenderResults :
           AcceptPrompt(selected, res)
    \/ Settle

SpecCell == InitCell /\ [][NextCell]_vars

\* the mimetype picker alone, on a cell shown with any outputs: prompts are
\* opened, dismissed and accepted; the cell's outputs stay as they are
NextPrompt ==
    \/ \E results \in [Range(viewOutputs) -> RenderResults] : ConstructCell(results)
    \/ \E output \in ViewOutputs : OpenPrompt(output)
    \/ DismissPrompt
    \/ \E selected \in {{}} \cup {{k} : k \in 0..2} \cup {{0, 1}}, res \in RenderResults :
           AcceptPrompt(selected, res)
    \/ Settle

SpecPrompt == InitCell /\ [][NextPrompt]_vars

\* the life of a cell: construction, text model resolution, disposal
NextAttach ==
    \/ \E results \in [Range(viewOutputs) -> RenderResults] : ConstructCell(results)
    \/ ResolveTextModel
    \/ AttachTextModel
    \/ DisposeCell
    \/ Settle

SpecAttach == InitCell /\ [][NextAttach]_vars

\* ------------------------------------------------------------------------
\* Extension host side: ExtHostNotebookController
\* ------------------------------------------------------------------------
ViewTypes == {"jupyter"}
Uris == {"a.ipynb"}
\* the index argument of $createEmptyCell and $deleteCell
RequestIndices == {0 - 1, 0, 1}

\* everything but the controller's state, the cell handle pool and the record
\* of the last operation
besidesController == <<outputs, outputMapping, listeners, docVars, envVars, pureVars, viewVars,
                       contentVars>>

\* a controller as constructed
InitController ==
    /\ ControllerIdle /\ ContentIdle
    /\ DocIdle /\ lastOp = NoOp
    /\ DiffIdle /\ OrderIdle /\ RankIdle /\ ResolveIdle /\ ViewIdle
    /\ phase = "input"

\* what an inbound operation leaves behind: the calls made, whether it threw or
\* its promise was rejected, and what it returned
Returns(name, viewType, uri, calls, threw, ret) ==
    /\ sent' = calls
    /\ errorRaised' = threw
    /\ lastOp' = [name |-> name, viewType |-> viewType, uri |-> uri, ret |-> ret,
                  registered |-> viewType \in DOMAIN notebookProviders,
                  open |-> uri \in DOMAIN documents]

\* a registration that replaces the provider of a registered view type
RegisterNotebookProvider_Overwrite(viewType) ==
    /\ Settled
    /\ Len(registrations) < MaxRegistrations
    /\ notebookProviders' = MapSet(notebookProviders, viewType, Len(registrations) + 1)
    /\ registrations' = Append(registrations, [viewType |-> viewType, disposed |-> FALSE])
    /\ Returns("registerNotebookProvider", viewType, "",
               <<[call |-> "$registerNotebookProvider", viewType |-> viewType]>>,
               FALSE, "disposable")
    /\ UNCHANGED <<documents, editors, documentHandlePool, documentCells,
                   activeNotebookDocument, requests, createdDocuments, cellHandlePool,
                   besidesController>>

\* registerNotebookProvider(extension, viewType, provider); the provider is
\* identified by the index of its registration
RegisterNotebookProvider(viewType) ==
    /\ Settled
    /\ IF viewType \in DOMAIN notebookProviders
       THEN /\ Returns("registerNotebookProvider", viewType, "", <<>>, TRUE, "throws")
            /\ UNCHANGED <<notebookProviders, registrations>>
       ELSE /\ Len(registrations) < MaxRegistrations
            /\ notebookProviders' = MapSet(notebookProviders, viewType, Len(registrations) + 1)
            /\ registrations' = Append(registrations, [viewType |-> viewType, disposed |-> FALSE])
            /\ Returns("registerNotebookProvider", viewType, "",
                       <<[call |-> "$registerNotebookProvider", viewType |-> viewType]>>,
                       FALSE, "disposable")
    /\ UNCHANGED <<documents, editors, documentHandlePool, documentCells,
                   activeNotebookDocument, requests, createdDocuments, cellHandlePool,
                   besidesController>>

\* dispose() of the disposable returned by the i-th registration; a
\* VSCodeDisposable runs its callback on the first dispose only
DisposeProvider(i) ==
    /\ Settled
    /\ i \in DOMAIN registrations
    /\ ~registrations[i].disposed
    /\ registrations' = [registrations EXCEPT ![i].disposed = TRUE]
    /\ notebookProviders' = MapDelete(notebookProviders, registrations[i].viewType)
    /\ Returns("dispose", registrations[i].viewType, "",
               <<[call |-> "$unregisterNotebookProvider", viewType |-> registrations[i].viewType]>>,
               FALSE, "void")
    /\ UNCHANGED <<documents, editors, documentHandlePool, documentCells,
                   activeNotebookDocument, requests, createdDocuments, cellHandlePool,
                   besidesController>>

\* $resolveNotebook(viewType, uri) up to its first await
ResolveNotebook(viewType, uri) ==
    /\ Settled
    /\ IF viewType \notin DOMAIN notebookProviders
       THEN /\ Returns("$resolveNotebook", viewType, uri, <<>>, FALSE, "undefined")
            /\ UNCHANGED <<editors, documentHandlePool, documentCells, requests, createdDocuments>>
       ELSE IF uri \notin DOMAIN documents
       THEN \* new ExtHostNotebookDocument; await this._proxy.$createNotebookDocument
            /\ Cardinality(requests) < MaxRequests
            /\ documentHandlePool < MaxDocuments
            /\ documentHandlePool' = documentHandlePool + 1
            /\ documentCells' = MapSet(documentCells, documentHandlePool, <<>>)
            /\ requests' = requests \cup {[viewType |-> viewType, uri |-> uri,
                                             pc |-> "createNotebookDocument",
                                             document |-> documentHandlePool]}
            /\ createdDocuments' =
                   MapSet(createdDocuments, uri,
                          (IF uri \in DOMAIN createdDocuments THEN createdDocuments[uri] ELSE {})
                              \cup {documentHandlePool})
            /\ Returns("$resolveNotebook", viewType, uri,
                       <<[call |-> "$createNotebookDocument", handle |-> documentHandlePool,
                          viewType |-> viewType, uri |-> uri]>>, FALSE, "pending")
            /\ UNCHANGED editors
       ELSE \* new ExtHostNotebookEditor on the open document; await provider.resolveNotebook
            /\ Cardinality(requests) < MaxRequests
            /\ editors' = MapSet(editors, uri, documents[uri])
            /\ requests' = requests \cup {[viewType |-> viewType, uri |-> uri,
                                             pc |-> "resolveNotebook",
                                             document |-> documents[uri]]}
            /\ Returns("$resolveNotebook", viewType, uri,
                       <<[call |-> "resolveNotebook", document |-> documents[uri]]>>,
                       FALSE, "pending")
            /\ UNCHANGED <<documentHandlePool, documentCells, createdDocuments>>
    /\ UNCHANGED <<notebookProviders, registrations, documents, activeNotebookDocument,
                   cellHandlePool, besidesController>>

\* $resolveNotebook after $createNotebookDocument has returned, up to its
\* second await: the document is stored and gets an editor
CreateNotebookDocumentReturns(r) ==
    /\ Settled
    /\ r.pc = "createNotebookDocument"
    /\ documents' = MapSet(documents, r.uri, r.document)
    /\ editors' = MapSet(editors, r.uri, r.document)
    /\ requests' = (requests \ {r}) \cup {[r EXCEPT !.pc = "resolveNotebook"]}
    /\ Returns("$resolveNotebook (created)", r.viewType, r.uri,
               <<[call |-> "resolveNotebook", document |-> r.document]>>, FALSE, "pending")
    /\ UNCHANGED <<notebookProviders, registrations, documentHandlePool, documentCells,
                   activeNotebookDocument, createdDocuments, cellHandlePool, besidesController>>

\* $resolveNotebook after provider.resolveNotebook(editor) has returned:
\* editor.document.handle is returned
ResolveNotebookReturns(r) ==
    /\ Settled
    /\ r.pc = "resolveNotebook"
    /\ requests' = requests \ {r}
    /\ sent' = <<>>
    /\ errorRaised' = FALSE
    /\ lastOp' = [name |-> "$resolveNotebook (resolved)", viewType |-> r.viewType,
                  uri |-> r.uri, ret |-> "handle", handle |-> r.document]
    /\ UNCHANGED <<notebookProviders, registrations, documents, editors, documentHandlePool,
                   documentCells, activeNotebookDocument, createdDocuments, cellHandlePool,
                   besidesController>>

\* $executeNotebook(viewType, uri, undefined)
ExecuteNotebook(viewType, uri) ==
    /\ Settled
    /\ Returns("$executeNotebook", viewType, uri,
               IF viewType \in DOMAIN notebookProviders /\ uri \in DOMAIN documents
               THEN <<[call |-> "executeCell", document |-> documents[uri]]>> ELSE <<>>,
               FALSE, "undefined")
    /\ UNCHANGED <<controllerVars, cellHandlePool, besidesController>>

\* $createEmptyCell(viewType, uri, index, language, type)
RequestCreateEmptyCell(viewType, uri, index) ==
    /\ Settled
    /\ IF viewType \notin DOMAIN notebookProviders
       THEN /\ Returns("$createEmptyCell", viewType, uri, <<>>, FALSE, "undefined")
            /\ UNCHANGED <<documentCells, cellHandlePool>>
       ELSE IF uri \notin DOMAIN editors
       THEN \* editor is undefined, so is rawCell: reading rawCell.handle raises a TypeError
            /\ Returns("$createEmptyCell", viewType, uri, <<>>, TRUE, "rejected")
            /\ UNCHANGED <<documentCells, cellHandlePool>>
       ELSE /\ cellHandlePool < MaxRequestedCells
            /\ cellHandlePool' = cellHandlePool + 1
            /\ documentCells' =
                   IF uri \in DOMAIN documents
                   THEN [documentCells EXCEPT
                            ![documents[uri]] = ApplySplice(@, index, 0, <<cellHandlePool>>)]
                   ELSE documentCells
            /\ Returns("$createEmptyCell", viewType, uri, <<>>, FALSE, "cell")
    /\ UNCHANGED <<notebookProviders, registrations, documents, editors, documentHandlePool,
                   activeNotebookDocument, requests, createdDocuments, besidesController>>

\* $deleteCell(viewType, uri, index), with ExtHostNotebookDocument.deleteCell
\* on the cell list of the document
RequestDeleteCell(viewType, uri, index) ==
    /\ Settled
    /\ IF viewType \notin DOMAIN notebookProviders \/ uri \notin DOMAIN documents
       THEN /\ Returns("$deleteCell", viewType, uri, <<>>, FALSE, "false")
            /\ UNCHANGED documentCells
       ELSE IF index >= Len(documentCells[documents[uri]])
       THEN /\ Returns("$deleteCell", viewType, uri, <<>>, FALSE, "false")
            /\ UNCHANGED documentCells
       ELSE IF index < 0
       THEN \* this.cells[index] is undefined: reading cell.handle raises a TypeError
            /\ Returns("$deleteCell", viewType, uri, <<>>, TRUE, "rejected")
            /\ UNCHANGED documentCells
       ELSE /\ documentCells' = [documentCells EXCEPT
                                    ![documents[uri]] = ApplySplice(@, index, 1, <<>>)]
            /\ Returns("$deleteCell", viewType, uri, <<>>, FALSE, "true")
    /\ UNCHANGED <<notebookProviders, registrations, documents, editors, documentHandlePool,
                   activeNotebookDocument, requests, createdDocuments, cellHandlePool,
                   besidesController>>

\* $saveNotebook(viewType, uri); saved is what provider.save(document) resolves to
SaveNotebook(viewType, uri, saved) ==
    /\ Settled
    /\ IF viewType \in DOMAIN notebookProviders /\ uri \in DOMAIN documents
       THEN Returns("$saveNotebook", viewType, uri,
                    <<[call |-> "save", document |-> documents[uri]]>>, FALSE,
                    IF saved THEN "true" ELSE "false")
       ELSE /\ ~saved
            /\ Returns("$saveNotebook", viewType, uri, <<>>, FALSE, "false")
    /\ UNCHANGED <<controllerVars, cellHandlePool, besidesController>>

\* $updateActiveEditor(viewType, uri)
UpdateActiveEditor(viewType, uri) ==
    /\ Settled
    /\ activeNotebookDocument' = IF uri \in DOMAIN documents THEN documents[uri] ELSE 0 - 1
    /\ Returns("$updateActiveEditor", viewType, uri, <<>>, FALSE, "undefined")
    /\ UNCHANGED <<notebookProviders, registrations, documents, editors, documentHandlePool,
                   documentCells, requests, createdDocuments, cellHandlePool, besidesController>>

\* $destoryNotebookDocument(viewType, uri)
DestroyNotebookDocument(viewType, uri) ==
    /\ Settled
    /\ IF viewType \in DOMAIN notebookProviders
       THEN /\ documents' = MapDelete(documents, uri)
            /\ editors' = MapDelete(editors, uri)
            /\ createdDocuments' = MapDelete(createdDocuments, uri)
            /\ Returns("$destoryNotebookDocument", viewType, uri, <<>>, FALSE, "true")
       ELSE /\ Returns("$destoryNotebookDocument", viewType, uri, <<>>, FALSE, "false")
            /\ UNCHANGED <<documents, editors, createdDocuments>>
    /\ UNCHANGED <<notebookProviders, registrations, documentHandlePool, documentCells,
                   activeNotebookDocument, requests, cellHandlePool, besidesController>>

NextController ==
    \/ \E viewType \in ViewTypes : RegisterNotebookProvider(viewType)
    \/ \E i \in 1..MaxRegistrations : DisposeProvider(i)
    \/ \E viewType \in ViewTypes, uri \in Uris : ResolveNotebook(viewType, uri)
    \/ \E r \in requests : CreateNotebookDocumentReturns(r)
    \/ \E r \in requests : ResolveNotebookReturns(r)
    \/ \E viewType \in ViewTypes, uri \in Uris : ExecuteNotebook(viewType, uri)
    \/ \E viewType \in ViewTypes, uri \in Uris, index \in RequestIndices :
           RequestCreateEmptyCell(viewType, uri, index)
    \/ \E viewType \in ViewTypes, uri \in Uris, index \in RequestIndices :
           RequestDeleteCell(viewType, uri, index)
    \/ \E viewType \in ViewTypes, uri \in Uris, saved \in BOOLEAN :
           SaveNotebook(viewType, uri, saved)
    \/ \E viewType \in ViewTypes, uri \in Uris : UpdateActiveEditor(viewType, uri)
    \/ \E viewType \in ViewTypes, uri \in Uris : DestroyNotebookDocument(viewType, uri)
    \/ Settle

SpecController == InitController /\ [][NextController]_vars

\* C14: deleteCell with an index that is not a position of a cell (negative,
\* or not below the number of cells) returns false without throwing and leaves
\* the cells and the subscription map as they were; with a valid index it
\* returns true and removes exactly that cell and its subscription entry
C14_DeleteCellOutOfRange ==
    lastOp.name = "deleteCell" =>
        IF lastOp.index < 0 \/ lastOp.index >= Len(lastOp.old)
        THEN /\ ~errorRaised
             /\ lastOp.returned = FALSE
             /\ cells = lastOp.old
             /\ DOMAIN cellDisposableMapping = lastOp.known
        ELSE /\ ~errorRaised
             /\ lastOp.returned = TRUE
             /\ cells = ApplySplice(lastOp.old, lastOp.index, 1, <<>>)
             /\ DOMAIN cellDisposableMapping = lastOp.known \ {lastOp.old[lastOp.index + 1]}

\* what deleteCell does: the claim's statement for every index that is not
\* negative; a negative index raises a TypeError before anything is changed
DeleteCellFromZero ==
    lastOp.name = "deleteCell" =>
        IF lastOp.index < 0
        THEN /\ errorRaised
             /\ cells = lastOp.old
             /\ DOMAIN cellDisposableMapping = lastOp.known
        ELSE IF lastOp.index >= Len(lastOp.old)
        THEN /\ ~errorRaised
             /\ lastOp.returned = FALSE
             /\ cells = lastOp.old
             /\ DOMAIN cellDisposableMapping = lastOp.known
        ELSE /\ ~errorRaised
             /\ lastOp.returned = TRUE
             /\ cells = ApplySplice(lastOp.old, lastOp.index, 1, <<>>)
             /\ DOMAIN cellDisposableMapping = lastOp.known \ {lastOp.old[lastOp.index + 1]}

\* deleteCell was called with a negative index on a document with cells
NegativeDeleteReached ==
    lastOp.name = "deleteCell" /\ lastOp.index < 0 /\ lastOp.old # <<>>

\* the last operation was a cells assignment that notified the remote peer
CellsAssignmentNotified ==
    /\ lastOp.name = "setCells"
    /\ \E i \in DOMAIN sent : sent[i].call = "spliceCells"

\* C16: when the spliceCells notification of a cells assignment is sent, the
\* subscription bookkeeping of all its splices is complete and the document's
\* cells are the new list: the document is then in the state the assignment
\* leaves it in
C16_NotifyAfterBookkeeping ==
    CellsAssignmentNotified =>
        /\ lastOp.atSend.cells = cells
        /\ lastOp.atSend.map = cellDisposableMapping
        /\ lastOp.atSend.lis = listeners
        /\ \A h \in Range(cells) \ Range(lastOp.old) : h \in DOMAIN lastOp.atSend.map
        /\ \A h \in Range(lastOp.old) \ Range(cells) : h \notin DOMAIN lastOp.atSend.map

\* a notified assignment removed a subscribed cell, kept one and inserted one
C16_Witness ==
    /\ CellsAssignmentNotified
    /\ \E h \in Range(lastOp.old) \ Range(cells) : h \in lastOp.known
    /\ Range(cells) \ Range(lastOp.old) # {}
    /\ Range(cells) \cap Range(lastOp.old) # {}

\* ------------------------------------------------------------------------
\* Claims about the controller
\* ------------------------------------------------------------------------
\* C12: for one URI at most one document is created and at most one
\* $createNotebookDocument call is made, however resolve requests for it
\* interleave, and every request returns the handle of that document
C12_OneDocumentPerUri ==
    /\ \A uri \in DOMAIN createdDocuments : Cardinality(createdDocuments[uri]) <= 1
    /\ (lastOp.name = "$resolveNotebook (resolved)" /\ lastOp.uri \in DOMAIN createdDocuments)
           => createdDocuments[lastOp.uri] = {lastOp.handle}

\* a resolve request that finds the document of its URI in _documents makes
\* no $createNotebookDocument call and creates no document
ResolveReusesStoredDocument ==
    (lastOp.name = "$resolveNotebook" /\ lastOp.registered /\ lastOp.open)
        => /\ \A i \in DOMAIN sent : sent[i].call # "$createNotebookDocument"
           /\ \E r \in requests : r.uri = lastOp.uri /\ r.document = documents[lastOp.uri]

\* two requests for one URI are both waiting for $createNotebookDocument
TwoRequestsAwaitCreate ==
    \E r1, r2 \in requests :
        /\ r1 # r2 /\ r1.uri = r2.uri
        /\ r1.pc = "createNotebookDocument" /\ r2.pc = "createNotebookDocument"

\* the inbound operations named by C13
InboundOperations ==
    {"$resolveNotebook", "$executeNotebook", "$createEmptyCell", "$deleteCell",
     "$saveNotebook", "$updateActiveEditor"}

\* the step is an inbound operation invoked with a view type without provider,
\* or (for all but $resolveNotebook) with a URI without document
NotFoundStep ==
    /\ lastOp = NoOp
    /\ lastOp'.name \in InboundOperations
    /\ \/ ~lastOp'.registered
       \/ lastOp'.name # "$resolveNotebook" /\ ~lastOp'.open

\* C13: an inbound operation with an unknown view type, or with a URI that
\* has no open document, neither throws nor rejects, returns undefined or
\* false, and leaves documents, editors and every document's cells unchanged
C13_NotFoundIsNoOp ==
    [][NotFoundStep =>
          /\ ~errorRaised'
          /\ lastOp'.ret \in {"undefined", "false"}
          /\ UNCHANGED <<documents, editors, documentCells>>]_vars

\* the same for every inbound operation but $createEmptyCell with a
\* registered view type
NotFoundIsNoOpButCreate ==
    [][(NotFoundStep /\ ~(lastOp'.name = "$createEmptyCell" /\ lastOp'.registered)) =>
          /\ ~errorRaised'
          /\ lastOp'.ret \in {"undefined", "false"}
          /\ UNCHANGED <<documents, editors, documentCells>>]_vars

\* $createEmptyCell was called for a registered view type and a URI without
\* document, while the controller holds a document's cells
CreateForUnknownUriReached ==
    /\ lastOp.name = "$createEmptyCell" /\ lastOp.registered /\ ~lastOp.open
    /\ \E d \in DOMAIN documentCells : documentCells[d] # <<>>

\* C15: registering a provider for a view type that has one throws, sends
\* nothing to the remote peer and leaves the registered provider, the
\* documents and their cells unchanged; for a view type without provider
\* (also after its registration was disposed) the registration succeeds
C15_DuplicateProviderRejected ==
    [][(lastOp = NoOp /\ lastOp'.name = "registerNotebookProvider") =>
          IF lastOp'.registered
          THEN /\ errorRaised'
               /\ sent' = <<>>
               /\ UNCHANGED <<notebookProviders, documents, editors, documentCells>>
          ELSE /\ ~errorRaised'
               /\ lastOp'.viewType \in DOMAIN notebookProviders'
               /\ notebookProviders'[lastOp'.viewType] = Len(registrations')
               /\ sent' = <<[call |-> "$registerNotebookProvider",
                             viewType |-> lastOp'.viewType]>>
               /\ UNCHANGED <<documents, editors, documentCells>>]_vars

\* a duplicate registration was rejected for a view type whose first
\* registration was disposed and which was registered again, with a document open
C15_Witness ==
    /\ lastOp.name = "registerNotebookProvider" /\ lastOp.ret = "throws"
    /\ Len(registrations) = 2 /\ registrations[1].disposed /\ ~registrations[2].disposed
    /\ documents # <<>>

\* ------------------------------------------------------------------------
\* Claims about the presentation side
\* ------------------------------------------------------------------------
\* the render invocations among the calls of the last operation
RenderCalls == SelectSeq(sent, LAMBDA c : c.call = "render")

\* the last operation changed the picked mimetype of an output to a candidate
\* that is unresolved
PickedUnresolved ==
    /\ lastOp.name = "pickActiveMimeTypeRenderer"
    /\ lastOp.outcome = "changed"
    /\ ~candidatesOfOutput(lastOp.output)[lastOp.pick + 1].isResolved

\* C11: when the user changes the picked mimetype of an output to an
\* unresolved candidate, exactly one render invocation follows and it is made
\* on the renderer named by the candidate's rendererId
C11_PickInvokesCandidatesRenderer ==
    PickedUnresolved =>
        /\ Len(RenderCalls) = 1
        /\ RenderCalls[1].renderer = candidatesOfOutput(lastOp.output)[lastOp.pick + 1].rendererId

\* what the code does on such a change: one render invocation, made on the
\* editor's output renderer with the output and the candidate's mimetype
PickInvokesEditorRenderer ==
    PickedUnresolved =>
        /\ Len(RenderCalls) = 1
        /\ RenderCalls[1].renderer = BuiltinRendererId
        /\ RenderCalls[1].output = lastOp.output
        /\ RenderCalls[1].mimeType = candidatesOfOutput(lastOp.output)[lastOp.pick + 1].mimeType
        /\ ~RenderCalls[1].prerendered

\* the pick went to the unresolved candidate of renderer 1
PickedUnresolvedReached ==
    PickedUnresolved /\ candidatesOfOutput(lastOp.output)[lastOp.pick + 1].rendererId = 1

\* the cell was disposed while its text buffer was still resolving: the
\* cancellation won the race
CancelledBeforeResolved == cellState = "disposed" /\ textModel.raced = "undefined"

\* C17: when the cell is disposed before its text buffer has resolved, the
\* editor's model is never set and attachTextEditor is never called, also
\* after the resolution completes, and nothing is raised
C17_CancelledSkipsAttach ==
    CancelledBeforeResolved =>
        /\ ~textModel.attached
        /\ \A i \in DOMAIN sent : sent[i].call \notin {"setModel", "attachTextEditor"}
        /\ ~errorRaised

\* the buffer resolved after the cancellation and the then callback has run
C17_Witness ==
    /\ CancelledBeforeResolved
    /\ textModel.state = "continued"
    /\ lastOp.name = "raceCancellation.then"

\* the last operation was a prompt that was dismissed, accepted without
\* exactly one selected item, or accepted with the index picked already
NoPickMade ==
    /\ lastOp.name = "pickActiveMimeTypeRenderer"
    /\ \/ lastOp.outcome = "dismissed"
       \/ Cardinality(lastOp.selected) # 1
       \/ lastOp.selected = {lastOp.currIndex}

\* C18: showing the mimetype picker and leaving it by dismissal, by an
\* accept without exactly one selected item, or by an accept of the index
\* picked already changes nothing: picked indices, mounted elements and
\* their order, element and listener maps, heights and insets stay as they
\* were, nothing is rendered or laid out and nothing is raised
C18_NoPickChangesNothing ==
    [][(lastOp = NoOp /\ (lastOp'.name = "showPicker" \/ NoPickMade')) =>
          /\ UNCHANGED <<viewOutputs, pickedMimeTypeIndex, outputContainer, outputElements,
                         outputResizeListeners, outputHeights, insets, liveListeners>>
          /\ sent' = <<>>
          /\ ~errorRaised']_vars

\* the index picked already was accepted for the first of two mounted outputs
C18_Witness ==
    /\ NoPickMade
    /\ lastOp.outcome = "same"
    /\ lastOp.selected = {lastOp.currIndex}
    /\ Len(outputContainer) = 2
    /\ viewOutputs[1] = lastOp.output

\* the last operation called the renderer for output o
RenderInvokedFor(o) == \E i \in DOMAIN sent : sent[i].call = "render" /\ sent[i].output = o

\* the last operation rendered output o and the renderer gave no result
RenderedWithoutResult(o) ==
    /\ RenderInvokedFor(o)
    /\ \/ /\ lastOp.name \in {"constructor", "onDidChangeOutputs"}
          /\ o \in lastOp.rendered
          /\ ~lastOp.results[o].defined
       \/ /\ lastOp.name = "pickActiveMimeTypeRenderer"
          /\ lastOp.outcome = "changed"
          /\ lastOp.output = o
          /\ ~lastOp.result.defined

\* the tracked height of output o, where the cell has it, is 0 and no element
\* of o is mounted in the output container
ZeroHeightUnmounted(o) ==
    /\ o \in Range(viewOutputs) => outputHeights[IndexOf(viewOutputs, o) + 1] = 0
    /\ o \notin Range(outputContainer)

\* C19: after an operation that rendered an output without a result (initial
\* render, splice handling, re-render after a pick change) the output's
\* tracked height is 0, no element of it is mounted, the element map has no
\* entry for it and the operation did not fail
C19_NoResultLeavesNoTrace ==
    \A o \in ViewOutputs :
        RenderedWithoutResult(o) =>
            /\ ZeroHeightUnmounted(o)
            /\ ~HasEntry(outputElements, o)
            /\ ~errorRaised

\* what the code does: height 0 and nothing mounted in all three cases; the
\* element map has no entry after the initial render and after a splice
NoResultLeavesNoElementMounted ==
    \A o \in ViewOutputs :
        RenderedWithoutResult(o) =>
            /\ ZeroHeightUnmounted(o)
            /\ lastOp.name # "pickActiveMimeTypeRenderer" => ~HasEntry(outputElements, o)

\* a pick change re-rendered a mounted output without a result
PickRenderedWithoutResult ==
    /\ lastOp.name = "pickActiveMimeTypeRenderer"
    /\ lastOp.outcome = "changed"
    /\ RenderedWithoutResult(lastOp.output)
    /\ lastOp.output \in Range(viewOutputs)

\* the splices applied to s last one first, each at its stated start
\* (reversedSplices.forEach of the presentation side)
ApplyReversed(s, splices) == ApplyInOrder(s, Reverse(splices))

\* C20: for every contains predicate the splices of diff(before, after,
\* contains) have strictly increasing start indices that are positions in
\* before, delete within before, and yield after when applied to before in
\* reverse list order
C20_ReversedSplicesYieldAfter ==
    phase = "done" =>
        /\ \A i \in 1..(Len(result) - 1) : result[i].start < result[i + 1].start
        /\ \A i \in 1..Len(result) :
               /\ result[i].start \in 0..Len(before)
               /\ result[i].deleteCount >= 0
               /\ result[i].start + result[i].deleteCount <= Len(before)
        /\ ApplyReversed(before, result) = after

\* a call whose contains predicate differs from the membership of before and
\* whose result has two splices, the first changing the length
C20_Witness ==
    /\ phase = "done"
    /\ ~ContainsIsMembership
    /\ Len(result) >= 2
    /\ Len(result[1].toInsert) # result[1].deleteCount
    /\ ApplyInOrder(before, result) # after

\* ------------------------------------------------------------------------
\* Claims about a cell's outputs
\* ------------------------------------------------------------------------
\* C21: an assignment to a cell's outputs fires exactly one event, when the
\* cell's outputs are the new list already, carrying the splices of the diff
\* of the previous list and the new one; applied at positions of the previous
\* list (last splice first, or left to right with shifted starts) they turn
\* the previous list into the cell's outputs, so an observer's copy follows
\* the cell over any sequence of assignments
C21_OneEventReplaysAssignment ==
    lastOp.name = "setOutputs" =>
        /\ Len(lastOp.fired) = 1
        /\ lastOp.atFire = outputs[lastOp.cell]
        /\ ApplyReversed(lastOp.old, lastOp.fired[1]) = outputs[lastOp.cell]
        /\ ApplyShifted(lastOp.old, lastOp.fired[1], 0) = outputs[lastOp.cell]

\* an assignment to a cell constructed with outputs fired an event of two
\* splices, the first changing the length
C21_Witness ==
    /\ lastOp.name = "setOutputs"
    /\ Len(lastOp.fired[1]) >= 2
    /\ Len(lastOp.fired[1][1].toInsert) # lastOp.fired[1][1].deleteCount
    /\ outputMapping[lastOp.cell] # Range(outputs[lastOp.cell])

\* C26: the known-output set of every cell holds exactly the outputs in the
\* cell's output list, after construction and after every assignment
C26_KnownOutputsAreTheOutputs ==
    \A h \in CreatedCells : outputMapping[h] = Range(outputs[h])

\* what the code keeps: every known output is in the cell's output list
KnownOutputsWithinOutputs ==
    \A h \in CreatedCells : outputMapping[h] \subseteq Range(outputs[h])

\* a cell constructed with outputs, before any assignment
ConstructedWithOutputs ==
    /\ lastOp.name = "createCell"
    /\ outputs[lastOp.cell] # <<>>

\* ------------------------------------------------------------------------
\* Claims about the candidate list of a resolution
\* ------------------------------------------------------------------------
\* the candidates of the resolved output for mimetype m, in list order
CandidatesFor(m) == SelectSeq(transformed.orderedMimeTypes, LAMBDA c : c.mimeType = m)

\* the registered renderers whose filter has m, in registration order
MatchingRenderers(m) == SelectSeq(notebookOutputRenderers, LAMBDA r : m \in r.subTypes)

\* the candidates c of a mimetype with matching renderers rs: the resolved
\* one of the first renderer, unresolved ones of the others in registration
\* order, then the builtin one exactly for a core-supported mimetype
CandidatesOfRenderers(c, rs, m) ==
    /\ Len(c) = Len(rs) + (IF mimeTypeSupportedByCore(m) THEN 1 ELSE 0)
    /\ c[1].isResolved /\ c[1].rendererId = rs[1].handle
    /\ \A i \in 2..Len(rs) : ~c[i].isResolved /\ c[i].rendererId = rs[i].handle
    /\ mimeTypeSupportedByCore(m) => (~c[Len(c)].isResolved /\ c[Len(c)].rendererId = -1)

GoneOutputs == ViewOutputs \ Range(viewOutputs)

\* C23: an output that is not in the cell's output list has no started and
\* undisposed size observer or picker listener, and neither the listener map
\* nor the element map has an entry for it
C23_RemovedOutputsTornDown ==
    cellState = "live" =>
        \A o \in GoneOutputs :
            /\ liveListeners[o] = EmptyStore
            /\ o \notin DOMAIN outputResizeListeners
            /\ ~HasEntry(outputElements, o)

\* what the splice handler does for a removed output that had an element:
\* its entries leave both maps and its element leaves the container
RemovedElementForgotten ==
    (lastOp.name = "onDidChangeOutputs" /\ ~errorRaised /\ lastOp.delivered # <<>>) =>
        \A o \in GoneOutputs :
            /\ ~HasEntry(outputElements, o)
            /\ o \notin Range(outputContainer)
            /\ HasEntry(lastOp.elementsBefore, o) => o \notin DOMAIN outputResizeListeners

\* a splice removed an output whose size observer was started: the observer
\* is still observing
ObserverOutlivesOutput ==
    /\ lastOp.name = "onDidChangeOutputs"
    /\ \E o \in GoneOutputs : liveListeners[o].observer > 0 /\ o \in Range(lastOp.old)

\* C29: handling an output-splice event leaves the view model's outputs and
\* the delivered splice list in the order they had when the event was
\* delivered, and the indices of the height updates are positions of the
\* rendered outputs in that output list
C29_HandlerLeavesOutputsAndSplices ==
    (lastOp.name = "onDidChangeOutputs" /\ lastOp.delivered # <<>>) =>
        /\ viewOutputs = lastOp.new
        /\ lastOp.splices = lastOp.delivered
        /\ \A i \in DOMAIN sent :
               sent[i].call = "updateOutputHeight" =>
                   \E o \in lastOp.rendered : sent[i].index = IndexOf(lastOp.new, o)

\* what the handler does: both arrays are reversed in place once the handler
\* has run, and the height updates use positions in the reversed output list
HandlerReversesOutputsAndSplices ==
    (lastOp.name = "onDidChangeOutputs" /\ lastOp.delivered # <<>>) =>
        /\ lastOp.splices = Reverse(lastOp.delivered)
        /\ ~errorRaised => viewOutputs = Reverse(lastOp.new)
        /\ \A i \in DOMAIN sent :
               sent[i].call = "updateOutputHeight" =>
                   \E o \in lastOp.rendered : sent[i].index = IndexOf(Reverse(lastOp.new), o)

\* a handled event with two splices for a list of two outputs, one of them rendered
TwoSplicesTwoOutputsHandled ==
    /\ lastOp.name = "onDidChangeOutputs"
    /\ Len(lastOp.delivered) = 2
    /\ Len(lastOp.new) = 2
    /\ lastOp.rendered # {}
    /\ ~errorRaised

\* the outputs of the cell's list that have a mounted element, in list order
MountedInListOrder == SelectSeq(viewOutputs, LAMBDA o : o \in Range(outputContainer))

\* C24: the elements mounted in the output container are in the relative
\* order of their outputs in the cell's output list, after the initial
\* render and after every splice and pick change
C24_MountedInOutputOrder ==
    (cellState = "live" /\ ~errorRaised) =>
        SelectSeq(outputContainer, LAMBDA e : e \in Range(viewOutputs)) = MountedInListOrder

\* what holds: after the initial render the container is in list order
InitialRenderMountsInListOrder ==
    (lastOp.name = "constructor" /\ ~errorRaised) => outputContainer = MountedInListOrder

\* a splice was handled without error and two elements are mounted
TwoMountedAfterSplice ==
    /\ lastOp.name = "onDidChangeOutputs"
    /\ ~errorRaised
    /\ Len(outputContainer) = 2
    /\ Len(viewOutputs) = 2

\* C27: under every interleaving of splice handling and picker completion,
\* every output with an entry in the element map or a mounted element is in
\* the cell's output list, and no height update is made at an index outside
\* the output list
C27_PickerKeepsToCurrentOutputs ==
    cellState = "live" =>
        /\ \A o \in GoneOutputs : ~HasEntry(outputElements, o) /\ o \notin Range(outputContainer)
        /\ \A i \in DOMAIN sent :
               sent[i].call = "updateOutputHeight" =>
                   sent[i].index \in 0..(Len(viewOutputs) - 1)

\* a different mimetype was accepted for an output that had left the cell
\* while its prompt was open
PickedForRemovedOutput ==
    /\ lastOp.name = "pickActiveMimeTypeRenderer"
    /\ lastOp.outcome = "changed"
    /\ lastOp.index = 0 - 1

\* C28: every transformed display output, also one whose data is empty, has a
\* pickedMimeTypeIndex that is an index of its candidate list, so that no
\* reader of the picked candidate finds it missing
C28_PickedIndexIsValid ==
    phase = "done" =>
        /\ 0 <= transformed.pickedMimeTypeIndex
        /\ transformed.pickedMimeTypeIndex < Len(transformed.orderedMimeTypes)
        /\ ~pickedIsMissing(transformed)

\* what holds: an output with at least one mimetype has a candidate at the
\* picked index, and only the output without data has none
PickedMissingOnlyWithoutData ==
    phase = "done" => (pickedIsMissing(transformed) <=> outputData = <<>>)

\* a display output without data was transformed
EmptyDataTransformed ==
    phase = "done" /\ outputData = <<>> /\ transformed.orderedMimeTypes = <<>>

\* C25: with a text document attached, getContent is the document's text
\* when its version differs from the version recorded at attach and the source
\* lines joined by line feeds otherwise; getContent right after a detach
\* equals getContent right before it, whatever the text; and a detach without
\* a version change leaves the source lines as they were
C25_ContentSurvivesDetach ==
    /\ textDocument.attached =>
           getContent(source, textDocument, initalVersion) =
               IF textDocument.version # initalVersion
               THEN textDocument.text ELSE join(source, <<LF>>)
    /\ lastOp.name = "detachTextDocument" =>
           /\ getContent(source, textDocument, initalVersion) = lastOp.contentBefore
           /\ ~lastOp.changed => source = lastOp.sourceBefore

\* the text of a line-feed-only document
noCR(text) == \A i \in 1..Len(text) : text[i] # CR

\* what holds: getContent follows the version test, a detach without a
\* version change keeps the source lines, and getContent survives the detach
\* of a text without carriage returns
ContentSurvivesDetachWithoutCR ==
    /\ textDocument.attached =>
           getContent(source, textDocument, initalVersion) =
               IF textDocument.version # initalVersion
               THEN textDocument.text ELSE join(source, <<LF>>)
    /\ lastOp.name = "detachTextDocument" =>
           /\ noCR(lastOp.contentBefore) =>
                  getContent(source, textDocument, initalVersion) = lastOp.contentBefore
           /\ ~lastOp.changed => source = lastOp.sourceBefore
           /\ getContent(source, textDocument, initalVersion) =
                  join(split(lastOp.contentBefore), <<LF>>)

\* a document with a CRLF line break was detached after an edit
DetachedEditedCRLF ==
    /\ lastOp.name = "detachTextDocument"
    /\ lastOp.changed
    /\ lastOp.contentBefore = <<"a", CR, LF>>
    /\ source = <<<<"a">>, <<>>, <<>>>>

\* a document was attached and detached without a version change
DetachedUnchanged ==
    /\ lastOp.name = "detachTextDocument"
    /\ lastOp.wasAttached
    /\ ~lastOp.changed
    /\ source = lastOp.sourceBefore

====
